---- MODULE Spec2Model ----
(***************************************************************************)
(* The agent control loop of artificial-agentics: the LangGraph state      *)
(* graphs of DevelopmentTeamManager, DevelopmentCodeWriter,                *)
(* DevelopmentCodeReviewer (agent -> tools -> format_response -> END) and  *)
(* ResearchVoyager (agent -> tools -> END), with the per-field reducers of *)
(* their AgentState annotations and their top-level invocations.           *)
(*                                                                         *)
(* Message contents are sequences of symbols (characters, and the          *)
(* Voyager's markers as single lexemes), so that String.includes, split    *)
(* and trim are computed, not assumed.                                     *)
(***************************************************************************)
EXTENDS Integers, Sequences, FiniteSets, TLC

VARIABLES
    agent,       \* which agent class runs: "manager", "writer", "reviewer", "voyager"
    state,       \* the LangGraph channel values (AgentState)
    pc,          \* the node the graph runs next; "END"; then "returned" / "threw"
    agentSteps,  \* history: executions of the agent node
    modelCalls,  \* history: modelInstance.invoke calls of the last agent node
    toolExecs,   \* history: tool.invoke calls
    formatRuns,  \* history: executions of the format_response node
    stored,      \* history: a node wrote a result into the terminal-result slot
    lastRoute,   \* history: what shouldContinue returned after the last agent node
    lastResponse,\* history: the model response the last agent node kept
    retval,      \* what the top-level invocation returned (Null before / on throw)
    dispatch,    \* the locals of a running toolsNode (its for loop, call by call)
    budget,      \* the locals of the context budgeter of agentNode
    bucket,      \* modelTokenBucket, the process-wide token bucket
    admission,   \* per caller, the locals of the loop around modelTokenBucket.take
    retry,       \* the locals of the for loop around modelInstance.invoke
    coercion     \* the structured-output call of a running formatResponseNode

\* the variables of the graph run
graph == <<agent, state, pc, agentSteps, modelCalls, toolExecs, formatRuns,
           stored, lastRoute, lastResponse, retval>>

\* the variables of the components modelled step by step on their own
parts == <<dispatch, budget, bucket, admission, retry, coercion>>

vars == <<agent, state, pc, agentSteps, modelCalls, toolExecs, formatRuns,
          stored, lastRoute, lastResponse, retval, dispatch, budget, bucket,
          admission, retry, coercion>>

----------------------------------------------------------------------------
(* Bounds of the model and constants of the program.                       *)

\* largest maxIterations explored (the Annotation default is 25)
MaxIter == 3

\* for (let i = 0; i < 3; i++): model calls per agent node
MAX_ATTEMPTS == 3

----------------------------------------------------------------------------
(* null / undefined, and the values that may be null.                      *)

Null == [null |-> TRUE]
Some(v) == [val |-> v]

\* JavaScript truthiness of a possibly-null string: null and "" are falsy
TruthyString(m) == m # Null /\ m.val # ""

\* JavaScript truthiness of a possibly-null text held as a symbol sequence
TruthyText(m) == m # Null /\ m.val # <<>>

----------------------------------------------------------------------------
(* Strings as sequences of symbols.                                        *)

\* String.prototype.includes for a non-empty pattern
Includes(content, pat) ==
    \E i \in 1..(Len(content) - Len(pat) + 1) :
        SubSeq(content, i, i + Len(pat) - 1) = pat

\* index of the first occurrence of the one-symbol marker m, 0 when absent
IndexOf(content, m) ==
    IF \E i \in 1..Len(content) : content[i] = m
    THEN CHOOSE i \in 1..Len(content) :
            /\ content[i] = m
            /\ \A j \in 1..(i - 1) : content[j] # m
    ELSE 0

\* content.split(m)[1]: what lies between the first and the second marker m
SplitSecond(content, m) ==
    LET rest == SubSeq(content, IndexOf(content, m) + 1, Len(content))
        nxt  == IndexOf(rest, m)
    IN  IF nxt = 0 THEN rest ELSE SubSeq(rest, 1, nxt - 1)

Whitespace == {" ", "\n"}

RECURSIVE TrimStart(_)
TrimStart(s) ==
    IF s # <<>> /\ Head(s) \in Whitespace THEN TrimStart(Tail(s)) ELSE s

RECURSIVE TrimEnd(_)
TrimEnd(s) ==
    IF s # <<>> /\ s[Len(s)] \in Whitespace
    THEN TrimEnd(SubSeq(s, 1, Len(s) - 1))
    ELSE s

\* String.prototype.trim
Trim(s) == TrimEnd(TrimStart(s))

\* s.split("\n")[0]
FirstLine(s) ==
    IF IndexOf(s, "\n") = 0 THEN s ELSE SubSeq(s, 1, IndexOf(s, "\n") - 1)

----------------------------------------------------------------------------
(* Messages.                                                               *)

NoId == "-"

Message(role, content, tool_calls, tool_call_id) ==
    [role |-> role, content |-> content, tool_calls |-> tool_calls,
     tool_call_id |-> tool_call_id]

HumanMessage(content) == Message("human", content, <<>>, NoId)
AIMessage(content, tool_calls) == Message("ai", content, tool_calls, NoId)
ToolMessage(content, id) == Message("tool", content, <<>>, id)

ToolCall(id, name) == [id |-> id, name |-> name]

\* the task the top-level invocation puts in the initial state
TaskMessage == HumanMessage(<<"t", "a", "s", "k">>)

\* JSON.stringify({plan: "Maximum iterations reached. Unable to complete task."})
MaxIterationsContent == <<"{", "plan", ":", "Maximum iterations reached.", "}">>

\* "Please format the response as valid JSON."
FormatRequest == HumanMessage(<<"format", " ", "as", " ", "JSON", ".">>)

\* "The response format is invalid. Please provide a valid JSON response ..."
CorrectiveMessage == HumanMessage(<<"invalid", ".", " ", "{", "shape", "}">>)

----------------------------------------------------------------------------
(* Tool registries (this.tools) and the model stub.                        *)

Agents == {"manager", "writer", "reviewer", "voyager"}
DevAgents == {"manager", "writer", "reviewer"}

Registry(a) ==
    CASE a = "manager"  -> {"searxng-search", "read_file", "list_directory",
                            "path_exists"}
      [] a = "writer"   -> {"searxng-search", "read_file", "write_file",
                            "delete_file", "list_directory", "create_directory",
                            "remove_directory", "commit_changes"}
      [] a = "reviewer" -> {"read_file", "list_directory"}
      [] a = "voyager"  -> {"click", "type", "scroll", "wait", "go_back",
                            "to_google"}

\* the backtick character
Backtick == "backtick"

Response(content, tool_calls) == [content |-> content, tool_calls |-> tool_calls]

EmptyResponse == Response(<<>>, <<>>)

\* what the stubbed development model may answer
DevResponses ==
    { EmptyResponse,
      Response(<<"o", "k">>, <<>>),
      Response(<<"{", "a", "}">>, <<>>),
      Response(<<Backtick, Backtick, Backtick, "a">>, <<>>),
      Response(<<Backtick, Backtick, "a">>, <<>>),
      Response(<<"n", "o">>, <<ToolCall("call_1", "read_file")>>),
      Response(<<"{", "a", "}">>, <<ToolCall("call_2", "search_files")>>),
      Response(<<"n", "o">>, <<ToolCall("call_4", "list_directory"),
                               ToolCall("call_5", "path_exists")>>) }

\* what the stubbed Voyager model may answer
VoyagerResponses ==
    { EmptyResponse,
      Response(<<"o", "k">>, <<>>),
      Response(<<"ANSWER;", " ", "4", "2">>, <<>>),
      Response(<<"ANSWER;", " ">>, <<>>),
      Response(<<"Thought:", " ", "g", "o", "\n", "ANSWER;", " ", "7">>,
               <<ToolCall("call_1", "click")>>),
      Response(<<"Thought:", " ", "g", "o">>, <<ToolCall("call_2", "click")>>),
      Response(<<"o", "k">>, <<ToolCall("call_3", "search_files")>>),
      Response(<<"o", "k">>, <<ToolCall("call_4", "scroll"),
                               ToolCall("call_5", "click")>>),
      Response(<<"n", "o">>, <<ToolCall("call_7", "search_files"),
                               ToolCall("call_8", "click")>>) }

Responses(a) == IF a = "voyager" THEN VoyagerResponses ELSE DevResponses

\* a response with tool calls and no text
EmptyWithCall(a) ==
    Response(<<>>, <<ToolCall("call_6", IF a = "voyager" THEN "click" ELSE "read_file")>>)

\* The stub's script for one agent node: its answers to the first, second and
\* third call. An immediate answer, or empty answers first.
Scripts(a) ==
    { <<r, EmptyResponse, EmptyResponse>> : r \in Responses(a) \ {EmptyResponse} }
        \cup { <<EmptyResponse, r, EmptyResponse>> :
                    r \in { x \in Responses(a) :
                              /\ x.content = <<"o", "k">>
                              /\ \A i \in 1..Len(x.tool_calls) :
                                    x.tool_calls[i].name \in Registry(a) } }
        \cup { <<EmptyResponse, EmptyResponse, EmptyResponse>>,
               <<EmptyWithCall(a), EmptyWithCall(a), EmptyWithCall(a)>>,
               <<EmptyWithCall(a), EmptyResponse, Response(<<"o", "k">>, <<>>)>> }

----------------------------------------------------------------------------
(* AgentState: the channels and their reducers.                            *)

\* The initial state of an invocation: the channel defaults, then the input
\* of addFeature / completePlan / reviewCode / answerQuestion merged in.
InitialState(a, maxIterations) ==
    [ messages      |-> IF a = "voyager" THEN <<>> ELSE <<TaskMessage>>,
      plan          |-> Null,
      success       |-> FALSE,
      approved      |-> FALSE,
      suggestions   |-> <<>>,
      answer        |-> Null,
      thought       |-> Null,
      completed     |-> FALSE,
      toolCalls     |-> <<>>,
      scratchpad    |-> <<>>,
      iterations    |-> 0,
      maxIterations |-> maxIterations ]

\* reducer: (x, y) => x.concat(y)
Concat(x, y) == x \o y

\* reducer: (x, y) => y ?? x, for the channels a node may leave null / undefined
LastWrite(x, y) == IF y = Null THEN x ELSE y

\* reducer: (x, y) => y ?? x, for the channels every node returns a value for
\* (each node returns {...state, ...}, so y is never null or undefined)
Overwrite(x, y) == y

\* The state after a node returned the update upd: each channel's reducer is
\* applied to the channel's value and the update's value.
Merge(st, upd) ==
    [ messages      |-> Concat(st.messages, upd.messages),
      plan          |-> LastWrite(st.plan, upd.plan),
      success       |-> Overwrite(st.success, upd.success),
      approved      |-> Overwrite(st.approved, upd.approved),
      suggestions   |-> Overwrite(st.suggestions, upd.suggestions),
      answer        |-> LastWrite(st.answer, upd.answer),
      thought       |-> LastWrite(st.thought, upd.thought),
      completed     |-> Overwrite(st.completed, upd.completed),
      toolCalls     |-> Overwrite(st.toolCalls, upd.toolCalls),
      scratchpad    |-> Overwrite(st.scratchpad, upd.scratchpad),
      iterations    |-> Overwrite(st.iterations, upd.iterations),
      maxIterations |-> Overwrite(st.maxIterations, upd.maxIterations) ]

----------------------------------------------------------------------------
(* The agent node.                                                         *)

\* for (let i = 0; i < 3; i++) { response = invoke(); if (content.length > 0) break; }
\* from attempt i on: the response kept and the number of calls made
RECURSIVE InvokeLoop(_, _)
InvokeLoop(script, i) ==
    IF Len(script[i].content) > 0 \/ i >= MAX_ATTEMPTS
    THEN [response |-> script[i], calls |-> i]
    ELSE InvokeLoop(script, i + 1)

\* DevAgentNode that counts every model call against the budget
DevAgentNodeCountsCalls(st, script) ==
    IF st.iterations >= st.maxIterations
    THEN [st EXCEPT !.messages =
                Append(st.messages, AIMessage(MaxIterationsContent, <<>>))]
    ELSE LET response == InvokeLoop(script, 1).response
         IN  [st EXCEPT
                !.messages = Append(st.messages,
                                    AIMessage(response.content, response.tool_calls)),
                !.iterations = st.iterations + InvokeLoop(script, 1).calls]

\* agentNode of the team manager, the code writer and the code reviewer
DevAgentNode(st, script) ==
    IF st.iterations >= st.maxIterations
    THEN [st EXCEPT !.messages =
                Append(st.messages, AIMessage(MaxIterationsContent, <<>>))]
    ELSE LET response == InvokeLoop(script, 1).response
         IN  [st EXCEPT
                !.messages = Append(st.messages,
                                    AIMessage(response.content, response.tool_calls)),
                !.iterations = st.iterations + 1]

\* agentNode of the Voyager
VoyagerAgentNode(st, script) ==
    IF st.iterations >= st.maxIterations
    THEN st
    ELSE LET response   == InvokeLoop(script, 1).response
             hasThought == Includes(response.content, <<"Thought:">>)
             completed  == Includes(response.content, <<"ANSWER;">>)
         IN  [st EXCEPT
                !.iterations = st.iterations + 1,
                !.toolCalls  = response.tool_calls,
                !.completed  = completed,
                !.answer     = IF completed
                               THEN Some(Trim(SplitSecond(response.content, "ANSWER;")))
                               ELSE Null,
                !.thought    = IF hasThought
                               THEN Some(FirstLine(Trim(
                                        SplitSecond(response.content, "Thought:"))))
                               ELSE Null]

AgentNode(a, st, script) ==
    IF a = "voyager" THEN VoyagerAgentNode(st, script) ELSE DevAgentNode(st, script)

\* the model calls the agent node makes
AgentNodeCalls(st, script) ==
    IF st.iterations >= st.maxIterations THEN 0 ELSE InvokeLoop(script, 1).calls

----------------------------------------------------------------------------
(* The transition predicate and the edges of the graph.                    *)

Fence == <<Backtick, Backtick, Backtick>>

\* DevShouldContinue with the pending tool calls looked at before the budget
DevShouldContinueToolsFirst(st) ==
    LET lastMessage == st.messages[Len(st.messages)]
    IN  IF Len(lastMessage.tool_calls) > 0 THEN "continue"
        ELSE IF st.iterations >= st.maxIterations THEN "end"
        ELSE IF /\ Len(lastMessage.content) > 0
                /\ \/ Includes(lastMessage.content, <<"{">>)
                   \/ Includes(lastMessage.content, Fence)
             THEN "format"
        ELSE "end"

\* DevShouldContinue with the budget compared by > instead of >=
DevShouldContinueOffByOne(st) ==
    LET lastMessage == st.messages[Len(st.messages)]
    IN  IF st.iterations > st.maxIterations THEN "end"
        ELSE IF Len(lastMessage.tool_calls) > 0 THEN "continue"
        ELSE IF /\ Len(lastMessage.content) > 0
                /\ \/ Includes(lastMessage.content, <<"{">>)
                   \/ Includes(lastMessage.content, Fence)
             THEN "format"
        ELSE "end"

\* DevShouldContinue with the content looked at before the pending tool calls
DevShouldContinueFormatFirst(st) ==
    LET lastMessage == st.messages[Len(st.messages)]
    IN  IF st.iterations >= st.maxIterations THEN "end"
        ELSE IF /\ Len(lastMessage.content) > 0
                /\ \/ Includes(lastMessage.content, <<"{">>)
                   \/ Includes(lastMessage.content, Fence)
             THEN "format"
        ELSE IF Len(lastMessage.tool_calls) > 0 THEN "continue"
        ELSE "end"

\* shouldContinue of the team manager, the code writer and the code reviewer
DevShouldContinue(st) ==
    LET lastMessage == st.messages[Len(st.messages)]
    IN  IF st.iterations >= st.maxIterations THEN "end"
        ELSE IF Len(lastMessage.tool_calls) > 0 THEN "continue"
        ELSE IF /\ Len(lastMessage.content) > 0
                /\ \/ Includes(lastMessage.content, <<"{">>)
                   \/ Includes(lastMessage.content, Fence)
             THEN "format"
        ELSE "end"

\* shouldContinue of the Voyager
VoyagerShouldContinue(st) ==
    IF st.iterations >= st.maxIterations THEN "end"
    ELSE IF Len(st.toolCalls) > 0 THEN "tools"
    ELSE IF ~TruthyText(st.answer) THEN "agent"
    ELSE "end"

shouldContinue(a, st) ==
    IF a = "voyager" THEN VoyagerShouldContinue(st) ELSE DevShouldContinue(st)

\* addConditionalEdges("agent", shouldContinue, {...})
ConditionalEdge(a, route) ==
    IF a = "voyager"
    THEN CASE route = "tools" -> "tools"
           [] route = "agent" -> "agent"
           [] route = "end"   -> "END"
    ELSE CASE route = "continue" -> "tools"
           [] route = "format"   -> "format_response"
           [] route = "end"      -> "END"

\* Edge with format_response wired back to the agent node
EdgeFormatToAgent(node) ==
    CASE node = "tools"           -> "agent"
      [] node = "format_response" -> "agent"

\* addEdge("tools", "agent"); addEdge("format_response", END)
Edge(node) ==
    CASE node = "tools"           -> "agent"
      [] node = "format_response" -> "END"

----------------------------------------------------------------------------
(* The tools node.                                                         *)

\* JSON.stringify(result) of a tool's text result
ResultContent == <<"\"", "r", "e", "s", "\"">>

\* error.message of a failed tool
ErrorMessage == <<"b", "o", "o", "m">>

\* `Error executing ${toolCall.name}: ${error.message}`
ErrorContent(name) == <<"Error executing ", name, ": ">> \o ErrorMessage

\* what the tools of one tools node do: per call position, "ok" or "throw"
\* (a call that is not dispatched has no outcome of its own: "ok")
Outcomes(a, calls, dispatched) ==
    { o \in [1..Len(calls) -> {"ok", "throw"}] :
        \A i \in 1..Len(calls) :
            (i \notin dispatched \/ calls[i].name \notin Registry(a)) => o[i] = "ok" }

\* DispatchAll with the tool message tagged with the call's name, not its id
RECURSIVE DispatchAllTaggedByName(_, _, _, _)
DispatchAllTaggedByName(a, calls, outcomes, i) ==
    IF i > Len(calls) THEN <<>>
    ELSE LET toolCall == calls[i]
             pushed ==
                IF toolCall.name \in Registry(a)
                THEN IF outcomes[i] = "ok"
                     THEN <<ToolMessage(ResultContent, toolCall.name)>>
                     ELSE <<ToolMessage(ErrorContent(toolCall.name), toolCall.name)>>
                ELSE <<>>
         IN  pushed \o DispatchAllTaggedByName(a, calls, outcomes, i + 1)

\* for (const toolCall of toolCalls) { find; if (tool) { try invoke, push }}
\* from call i on: the tool messages pushed
RECURSIVE DispatchAll(_, _, _, _)
DispatchAll(a, calls, outcomes, i) ==
    IF i > Len(calls) THEN <<>>
    ELSE LET toolCall == calls[i]
             pushed ==
                IF toolCall.name \in Registry(a)
                THEN IF outcomes[i] = "ok"
                     THEN <<ToolMessage(ResultContent, toolCall.id)>>
                     ELSE <<ToolMessage(ErrorContent(toolCall.name), toolCall.id)>>
                ELSE <<>>
         IN  pushed \o DispatchAll(a, calls, outcomes, i + 1)

\* the tool calls the development tools node reads
DevPendingCalls(st) == st.messages[Len(st.messages)].tool_calls

\* toolsNode of the team manager, the code writer and the code reviewer
DevToolsNode(a, st, outcomes) ==
    [st EXCEPT !.messages =
        st.messages \o DispatchAll(a, DevPendingCalls(st), outcomes, 1)]

\* the positions of the calls the development tools node looks up
DevDispatched(st) == 1..Len(DevPendingCalls(st))

\* the positions of the calls the Voyager's tools node looks up: the loop
\* body ends with an unconditional break
VoyagerDispatched(st) == IF Len(st.toolCalls) = 0 THEN {} ELSE {1}

\* result + ` - ${thought}` / error.message + ` - ${thought}`
ScratchpadEntry(text, thought) ==
    text \o <<" - ">> \o (IF thought = Null THEN <<"null">> ELSE thought.val)

\* toolsNode of the Voyager
VoyagerToolsNode(st, outcomes) ==
    IF Len(st.toolCalls) = 0
    THEN st
    ELSE LET toolCall == st.toolCalls[1]
             toolMessages ==
                IF toolCall.name \in Registry("voyager")
                THEN IF outcomes[1] = "ok"
                     THEN <<ScratchpadEntry(<<"r", "e", "s">>, st.thought)>>
                     ELSE <<ScratchpadEntry(ErrorMessage, st.thought)>>
                ELSE <<>>
         IN  [st EXCEPT !.toolCalls = <<>>,
                        !.scratchpad = st.scratchpad \o toolMessages]

ToolsNode(a, st, outcomes) ==
    IF a = "voyager" THEN VoyagerToolsNode(st, outcomes)
    ELSE DevToolsNode(a, st, outcomes)

PendingCalls(a, st) == IF a = "voyager" THEN st.toolCalls ELSE DevPendingCalls(st)

Dispatched(a, st) == IF a = "voyager" THEN VoyagerDispatched(st) ELSE DevDispatched(st)

\* the number of tool.invoke calls of one tools node
Invoked(a, st) ==
    Cardinality({ i \in Dispatched(a, st) : PendingCalls(a, st)[i].name \in Registry(a) })

----------------------------------------------------------------------------
(* The tools node call by call: the locals of its for loop.                *)

\* most tool calls in one response
MaxCalls == 3

\* the ids of the tool calls of one response, by position
CallIds == <<"call_1", "call_2", "call_3", "call_4", "call_5">>

\* the tool names a response may ask for: two of the registry, one outside
CallNames(a) ==
    IF a = "voyager" THEN {"click", "scroll", "search_files"}
    ELSE {"read_file", "list_directory", "search_files"}

\* the tool-call lists of a response that leads to the tools node
CallLists(a) ==
    { [i \in 1..n |-> ToolCall(CallIds[i], names[i])] :
        n \in 1..MaxCalls, names \in [1..MaxCalls -> CallNames(a)] }

\* the locals when toolsNode is entered with the tool calls it reads
EnterToolsNode(calls) ==
    [ toolCalls    |-> calls,  \* const toolCalls
      next         |-> 1,      \* the call the for loop takes up next
      running      |-> {},     \* the calls whose tool.invoke has not settled
      toolMessages |-> <<>>,   \* const toolMessages = []
      executed     |-> <<>>,   \* history: the calls invoked, in order
      threw        |-> {} ]    \* history: the calls whose tool threw

\* no toolsNode is running
NoDispatch == EnterToolsNode(<<>>)

\* Resolves that finds a tool whatever the name
ResolvesAnyName(a, toolCall) == TRUE

\* this.tools.find((t) => t.name === toolCall.name) is not undefined
Resolves(a, toolCall) == toolCall.name \in Registry(a)

\* Suspended for a tool.invoke that is not awaited
SuspendedNever(running) == FALSE

\* await tool.invoke(...): the loop does not go on while a call has not settled
Suspended(running) == running # {}

\* Resume without the break of the Voyager's loop
ResumeNextCall(a, calls, k) == k + 1

\* where the loop goes on after call k: the next call, or (the Voyager's
\* unconditional break) past the last one
Resume(a, calls, k) == IF a = "voyager" THEN Len(calls) + 1 ELSE k + 1

\* Pushed with the tool message tagged with the tool's name
PushedTaggedByName(a, st, toolCall, outcome) ==
    IF a = "voyager"
    THEN <<ScratchpadEntry(IF outcome = "ok" THEN <<"r", "e", "s">> ELSE ErrorMessage,
                           st.thought)>>
    ELSE <<ToolMessage(IF outcome = "ok" THEN ResultContent
                       ELSE ErrorContent(toolCall.name), toolCall.name)>>

\* Pushed with a catch block that only logs
PushedOnSuccessOnly(a, st, toolCall, outcome) ==
    IF outcome # "ok" THEN <<>>
    ELSE IF a = "voyager"
    THEN <<ScratchpadEntry(<<"r", "e", "s">>, st.thought)>>
    ELSE <<ToolMessage(ResultContent, toolCall.id)>>

\* toolMessages.push(...) of the try block (outcome "ok") and of the catch
\* block (outcome "throw"): what is pushed
Pushed(a, st, toolCall, outcome) ==
    IF a = "voyager"
    THEN <<ScratchpadEntry(IF outcome = "ok" THEN <<"r", "e", "s">> ELSE ErrorMessage,
                           st.thought)>>
    ELSE <<ToolMessage(IF outcome = "ok" THEN ResultContent
                       ELSE ErrorContent(toolCall.name), toolCall.id)>>

\* the update toolsNode returns once its loop is over
ToolsNodeReturn(a, st, toolMessages) ==
    IF a = "voyager"
    THEN [st EXCEPT !.toolCalls = <<>>,
                    !.scratchpad = st.scratchpad \o toolMessages]
    ELSE [st EXCEPT !.messages = st.messages \o toolMessages]

----------------------------------------------------------------------------
(* The format_response node.                                               *)

\* JSON values, tagged with their JavaScript type
Str(v)  == [t |-> "string",  v |-> v]
Bool(v) == [t |-> "boolean", v |-> v]
Num(v)  == [t |-> "number",  v |-> v]
Arr(v)  == [t |-> "array",   v |-> v]

\* response.raw.content: a text that is not JSON, or the JSON text of an object
NotJson == [json |-> FALSE]
Json(obj) == [json |-> TRUE, value |-> obj]

StructuredOutput(parsed, raw) == [parsed |-> parsed, raw |-> raw]

\* what withStructuredOutput(...).invoke may return ({parsed, raw}),
\* listed (the values are of different types)
StructuredOutputs(a) ==
    CASE a = "manager" ->
            << StructuredOutput(Some([plan |-> Str("the plan")]),
                               Json([plan |-> Str("the plan")])),
              StructuredOutput(Some([plan |-> Str("")]), Json([plan |-> Str("")])),
              StructuredOutput(Some([plan |-> Num(1)]), Json([plan |-> Num(1)])),
              StructuredOutput(Some([steps |-> Str("x")]), Json([steps |-> Str("x")])),
              StructuredOutput(Null, Json([plan |-> Str("raw plan")])),
              StructuredOutput(Null, Json([plan |-> Num(1)])),
              StructuredOutput(Null, NotJson) >>
      [] a = "writer" ->
            << StructuredOutput(Some([success |-> Bool(TRUE)]),
                               Json([success |-> Bool(TRUE)])),
              StructuredOutput(Some([success |-> Bool(FALSE)]),
                               Json([success |-> Bool(FALSE)])),
              StructuredOutput(Some([success |-> Str("yes")]),
                               Json([success |-> Str("yes")])),
              StructuredOutput(Null, Json([success |-> Bool(TRUE)])),
              StructuredOutput(Null, NotJson) >>
      [] a = "reviewer" ->
            << StructuredOutput(Some([success |-> Bool(TRUE), approved |-> Bool(TRUE)]),
                               Json([success |-> Bool(TRUE), approved |-> Bool(TRUE)])),
              StructuredOutput(Some([success |-> Bool(TRUE), approved |-> Bool(FALSE),
                                     suggestions |-> Arr(<<"rename">>)]),
                               Json([success |-> Bool(TRUE), approved |-> Bool(FALSE),
                                     suggestions |-> Arr(<<"rename">>)])),
              StructuredOutput(Some([success |-> Bool(FALSE), approved |-> Bool(FALSE)]),
                               Json([success |-> Bool(FALSE), approved |-> Bool(FALSE)])),
              StructuredOutput(Some([success |-> Bool(TRUE)]),
                               Json([success |-> Bool(TRUE)])),
              StructuredOutput(Some([success |-> Bool(TRUE), approved |-> Bool(TRUE),
                                     suggestions |-> Str("none")]),
                               Json([success |-> Bool(TRUE), approved |-> Bool(TRUE),
                                     suggestions |-> Str("none")])),
              StructuredOutput(Null, Json([success |-> Bool(TRUE),
                                           approved |-> Bool(TRUE)])),
              StructuredOutput(Null, NotJson) >>

Has(obj, field, type) == field \in DOMAIN obj /\ obj[field].t = type

\* this.responseSchema.parse(obj) does not throw
Conforms(a, obj) ==
    CASE a = "manager"  -> Has(obj, "plan", "string")
      [] a = "writer"   -> Has(obj, "success", "boolean")
      [] a = "reviewer" -> /\ Has(obj, "success", "boolean")
                           /\ Has(obj, "approved", "boolean")
                           /\ "suggestions" \in DOMAIN obj
                                => obj.suggestions.t = "array"

\* The value the node hands to responseSchema.parse: Null when there is none
\* (response.parsed is null, or JSON.parse threw). Only the team manager
\* falls back to parsing response.raw.content.
ParsedResponse(a, out) ==
    IF out.parsed # Null THEN out.parsed
    ELSE IF a = "manager" /\ out.raw.json THEN Some(out.raw.value)
    ELSE Null

\* the try block of formatResponseNode completes
Validated(a, out) ==
    /\ ParsedResponse(a, out) # Null
    /\ Conforms(a, ParsedResponse(a, out).val)

\* JSON.stringify(validatedResponse)
ValidatedContent == <<"{", "validated", "}">>

\* FormatResponseNode whose catch block also fills the slot with a default
FormatResponseNodeStoresDefault(a, st, out) ==
    IF Validated(a, out)
    THEN LET validatedResponse == ParsedResponse(a, out).val
             messages == Append(st.messages, AIMessage(ValidatedContent, <<>>))
         IN  CASE a = "manager" ->
                    [st EXCEPT !.plan = Some(validatedResponse.plan.v),
                               !.messages = messages]
               [] a = "writer" ->
                    [st EXCEPT !.success = validatedResponse.success.v,
                               !.messages = messages]
               [] a = "reviewer" ->
                    [st EXCEPT !.success = validatedResponse.success.v,
                               !.approved = validatedResponse.approved.v,
                               !.suggestions =
                                    IF "suggestions" \in DOMAIN validatedResponse
                                    THEN validatedResponse.suggestions.v
                                    ELSE <<>>,
                               !.messages = messages]
    ELSE CASE a = "manager" ->
                [st EXCEPT !.plan = Some(""),
                           !.messages = Append(st.messages, CorrectiveMessage)]
           [] a = "writer" ->
                [st EXCEPT !.success = TRUE,
                           !.messages = Append(st.messages, CorrectiveMessage)]
           [] a = "reviewer" ->
                [st EXCEPT !.success = TRUE,
                           !.messages = Append(st.messages, CorrectiveMessage)]

\* formatResponseNode of the team manager, the code writer and the code reviewer
FormatResponseNode(a, st, out) ==
    IF Validated(a, out)
    THEN LET validatedResponse == ParsedResponse(a, out).val
             messages == Append(st.messages, AIMessage(ValidatedContent, <<>>))
         IN  CASE a = "manager" ->
                    [st EXCEPT !.plan = Some(validatedResponse.plan.v),
                               !.messages = messages]
               [] a = "writer" ->
                    [st EXCEPT !.success = validatedResponse.success.v,
                               !.messages = messages]
               [] a = "reviewer" ->
                    [st EXCEPT !.success = validatedResponse.success.v,
                               !.approved = validatedResponse.approved.v,
                               !.suggestions =
                                    IF "suggestions" \in DOMAIN validatedResponse
                                    THEN validatedResponse.suggestions.v
                                    ELSE <<>>,
                               !.messages = messages]
    ELSE [st EXCEPT !.messages = Append(st.messages, CorrectiveMessage)]

----------------------------------------------------------------------------
(* The top-level invocations.                                              *)

Threw == [threw |-> TRUE]
Returned(v) == [threw |-> FALSE, value |-> v]

\* addFeature: if (!plan) throw; the code writer's failure is caught
addFeature(st) == IF ~TruthyString(st.plan) THEN Threw ELSE Returned(TRUE)

\* completePlan: if (!success) throw
completePlan(st) == IF ~st.success THEN Threw ELSE Returned(TRUE)

\* reviewCode: returns the three channels
reviewCode(st) ==
    Returned([success |-> st.success, approved |-> st.approved,
              suggestions |-> st.suggestions])

\* answerQuestion: if (!answer) throw
answerQuestion(st) == IF ~TruthyText(st.answer) THEN Threw ELSE Returned(st.answer.val)

Invocation(a, st) ==
    CASE a = "manager"  -> addFeature(st)
      [] a = "writer"   -> completePlan(st)
      [] a = "reviewer" -> reviewCode(st)
      [] a = "voyager"  -> answerQuestion(st)

----------------------------------------------------------------------------
(* The context budgeter of agentNode: estimateTokens, chunkMessage, the    *)
(* chunk pass, the eviction loop and the system-message fallback.          *)

\* const CHUNK_SIZE = 25000: the size the messages sent are cut down to
CHUNK_SIZE == 25000

\* if (messageTokens > 5000) chunkMessage(message, 5000)
PER_MESSAGE_TOKENS == 5000

Min(a, b) == IF a <= b THEN a ELSE b
Max(a, b) == IF a >= b THEN a ELSE b

\* Math.ceil(a / b) for a >= 0 and b > 0
Ceil(a, b) == (a + b - 1) \div b

SystemMessage(content) == Message("system", content, <<>>, NoId)

\* a text of n characters c
Rep(n, c) == SubSeq([i \in 1..n |-> c], 1, n)

\* The system prompt of each agent: only its length is modelled (490, 597
\* and 463 characters).
SystemPrompt(a) ==
    CASE a = "manager"  -> SystemMessage(Rep(490, "s"))
      [] a = "writer"   -> SystemMessage(Rep(597, "s"))
      [] a = "reviewer" -> SystemMessage(Rep(463, "s"))

\* msgs.reduce((acc, msg) => acc + (msg.content?.length || 0), 0)
RECURSIVE TotalCharacters(_)
TotalCharacters(msgs) ==
    IF msgs = <<>> THEN 0
    ELSE Len(Head(msgs).content) + TotalCharacters(Tail(msgs))

estimateTokens(msgs) == Ceil(TotalCharacters(msgs), 4)

\* content.lastIndexOf(c, fromIndex), indices from 0, -1 when absent
LastIndexOf(content, c, fromIndex) ==
    LET found == { i \in 0..Min(fromIndex, Len(content) - 1) : content[i + 1] = c }
    IN  IF found = {} THEN -1
        ELSE CHOOSE i \in found : \A j \in found : j <= i

\* content.substring(from, to), indices from 0
Substring(content, from, to) == SubSeq(content, from + 1, to)

DigitChars == <<"0", "1", "2", "3", "4", "5", "6", "7", "8", "9">>

\* the decimal digits of k
RECURSIVE Digits(_)
Digits(k) ==
    IF k < 10 THEN <<DigitChars[k + 1]>>
    ELSE Digits(k \div 10) \o <<DigitChars[(k % 10) + 1]>>

\* ` [Chunk ${k}]`
ChunkLabel(k) ==
    <<" ", "[", "C", "h", "u", "n", "k", " ">> \o Digits(k) \o <<"]">>

\* Spread that lets the properties written first win
SpreadFirstWins(fields, message) ==
    [f \in DOMAIN fields \cup DOMAIN message |->
        IF f \in DOMAIN fields THEN fields[f] ELSE message[f]]

\* the object literal { ...fields, ...message }: a property of message
\* overrides the property of the same name written before the spread
Spread(fields, message) ==
    [f \in DOMAIN fields \cup DOMAIN message |->
        IF f \in DOMAIN message THEN message[f] ELSE fields[f]]

\* new message.constructor(fields): a message of the class of message
Construct(message, fields) ==
    Message(message.role, fields.content, fields.tool_calls, fields.tool_call_id)

\* the three lastIndexOf calls and Math.max: the last newline, period or
\* space at or before index endIndex, -1 when there is none
BreakPoint(content, endIndex) ==
    Max(LastIndexOf(content, "\n", endIndex),
        Max(LastIndexOf(content, ".", endIndex),
            LastIndexOf(content, " ", endIndex)))

\* chunkEnd without the test on the place of the break point
ChunkEndAtAnyBreak(content, maxChars, startIndex) ==
    LET endIndex   == Min(startIndex + maxChars, Len(content))
        breakPoint == BreakPoint(content, endIndex)
    IN  IF endIndex < Len(content) /\ breakPoint >= 0
        THEN breakPoint + 1
        ELSE endIndex

\* chunkEnd of the iteration of the while loop that starts at startIndex
ChunkEnd(content, maxChars, startIndex) ==
    LET endIndex   == Min(startIndex + maxChars, Len(content))
        breakPoint == BreakPoint(content, endIndex)
    IN  \* breakPoint > startIndex + maxChars * 0.5
        IF /\ endIndex < Len(content)
           /\ 2 * breakPoint > 2 * startIndex + maxChars
        THEN breakPoint + 1
        ELSE endIndex

\* chunkSuffix of that iteration, which ends at chunkEnd
ChunkSuffix(content, maxChars, startIndex, chunkEnd) ==
    IF startIndex > 0
    THEN ChunkLabel((startIndex \div maxChars) + 1)
    ELSE IF chunkEnd < Len(content) THEN ChunkLabel(1)
    ELSE <<>>

\* the message pushed by that iteration
Chunk(message, maxChars, startIndex, chunkEnd) ==
    LET content      == message.content
        chunkContent == Substring(content, startIndex, chunkEnd)
        chunkSuffix  == ChunkSuffix(content, maxChars, startIndex, chunkEnd)
    IN  Construct(message,
                  Spread([content |-> chunkContent \o chunkSuffix], message))

\* the while loop of chunkMessage from startIndex on: the chunks pushed
RECURSIVE ChunkLoop(_, _, _)
ChunkLoop(message, maxChars, startIndex) ==
    IF startIndex >= Len(message.content) THEN <<>>
    ELSE LET chunkEnd == ChunkEnd(message.content, maxChars, startIndex)
         IN  <<Chunk(message, maxChars, startIndex, chunkEnd)>>
                \o ChunkLoop(message, maxChars, chunkEnd)

chunkMessage(message, maxTokens) ==
    LET maxChars == maxTokens * 4
    IN  IF Len(message.content) = 0 \/ Len(message.content) <= maxChars
        THEN <<message>>
        ELSE ChunkLoop(message, maxChars, 0)

\* "Chunk large messages first": processedMessages from message i on
RECURSIVE ChunkPass(_, _)
ChunkPass(messages, i) ==
    IF i > Len(messages) THEN <<>>
    ELSE (IF estimateTokens(<<messages[i]>>) > PER_MESSAGE_TOKENS
          THEN chunkMessage(messages[i], PER_MESSAGE_TOKENS)
          ELSE <<messages[i]>>)
            \o ChunkPass(messages, i + 1)

\* Evict with an if in the place of the while
EvictOnce(systemMessage, filteredMessages) ==
    IF /\ estimateTokens(<<systemMessage>> \o filteredMessages) > CHUNK_SIZE
       /\ Len(filteredMessages) > 0
    THEN Tail(filteredMessages)
    ELSE filteredMessages

\* Evict that drops the newest message, not the oldest
RECURSIVE EvictNewest(_, _)
EvictNewest(systemMessage, filteredMessages) ==
    IF /\ estimateTokens(<<systemMessage>> \o filteredMessages) > CHUNK_SIZE
       /\ Len(filteredMessages) > 0
    THEN EvictNewest(systemMessage,
                     SubSeq(filteredMessages, 1, Len(filteredMessages) - 1))
    ELSE filteredMessages

\* while (tokenEstimate > CHUNK_SIZE && filteredMessages.length > 0)
\*     filteredMessages = filteredMessages.slice(1)
RECURSIVE Evict(_, _)
Evict(systemMessage, filteredMessages) ==
    IF /\ estimateTokens(<<systemMessage>> \o filteredMessages) > CHUNK_SIZE
       /\ Len(filteredMessages) > 0
    THEN Evict(systemMessage, Tail(filteredMessages))
    ELSE filteredMessages

\* What agentNode sends to the model: allMessages, with the chunked history
\* (processedMessages), what is kept of it (filteredMessages) and the
\* estimate that is logged.
Budgeter(systemMessage, messages) ==
    LET processedMessages == ChunkPass(messages, 1)
        filteredMessages == Evict(systemMessage, processedMessages)
        allMessages      == <<systemMessage>> \o filteredMessages
        tokenEstimate    == estimateTokens(allMessages)
        firstChunk       == chunkMessage(systemMessage, CHUNK_SIZE - 1000)[1]
    IN  IF /\ tokenEstimate > CHUNK_SIZE
           /\ estimateTokens(<<systemMessage>>) > CHUNK_SIZE
        THEN [ allMessages      |-> <<firstChunk>> \o filteredMessages,
               processedMessages |-> processedMessages,
               filteredMessages |-> filteredMessages,
               tokenEstimate    |-> estimateTokens(<<firstChunk>> \o filteredMessages) ]
        ELSE [ allMessages      |-> allMessages,
               processedMessages |-> processedMessages,
               filteredMessages |-> filteredMessages,
               tokenEstimate    |-> tokenEstimate ]

----------------------------------------------------------------------------
(* The state machine.                                                      *)

\* no budgeter is running
NoBudget == [phase |-> "idle"]

\* the bucket is not looked at
NoBucket == [phase |-> "idle"]

\* no caller is in the loop around take
NoAdmission == [phase |-> "idle"]

\* no loop around modelInstance.invoke is running
NoRetry == [phase |-> "idle"]

\* no formatResponseNode is running
NoCoercion == [phase |-> "idle"]

\* the components modelled on their own are at rest during a graph run
PartsIdle ==
    /\ dispatch = NoDispatch
    /\ budget = NoBudget
    /\ bucket = NoBucket
    /\ admission = NoAdmission
    /\ retry = NoRetry
    /\ coercion = NoCoercion

Init ==
    /\ agent \in Agents
    /\ \E maxIterations \in 1..MaxIter : state = InitialState(agent, maxIterations)
    /\ pc = "agent"
    /\ agentSteps = 0
    /\ modelCalls = 0
    /\ toolExecs = 0
    /\ formatRuns = 0
    /\ stored = FALSE
    /\ lastRoute = "start"
    /\ lastResponse = EmptyResponse
    /\ retval = Null
    /\ PartsIdle

\* the agent node runs, its update is merged, shouldContinue picks the next node
Agent ==
    /\ pc = "agent"
    /\ \E script \in Scripts(agent) :
        LET upd == AgentNode(agent, state, script)
            new == Merge(state, upd)
        IN  /\ state' = new
            /\ lastRoute' = shouldContinue(agent, new)
            /\ pc' = ConditionalEdge(agent, shouldContinue(agent, new))
            /\ modelCalls' = AgentNodeCalls(state, script)
            /\ lastResponse' = IF state.iterations >= state.maxIterations
                               THEN lastResponse
                               ELSE InvokeLoop(script, 1).response
            /\ stored' = (stored \/ (agent = "voyager" /\ upd.answer # Null
                                        /\ state.iterations < state.maxIterations))
    /\ agentSteps' = agentSteps + 1
    /\ UNCHANGED <<agent, toolExecs, formatRuns, retval, parts>>

\* the tools node runs, its update is merged, the edge leads to the agent node
Tools ==
    /\ pc = "tools"
    /\ \E outcomes \in Outcomes(agent, PendingCalls(agent, state),
                                Dispatched(agent, state)) :
        state' = Merge(state, ToolsNode(agent, state, outcomes))
    /\ toolExecs' = toolExecs + Invoked(agent, state)
    /\ pc' = Edge("tools")
    /\ UNCHANGED <<agent, agentSteps, modelCalls, formatRuns, stored, lastRoute,
                   lastResponse, retval, parts>>

\* the format_response node runs, its update is merged, the edge leads to END
Format ==
    /\ pc = "format_response"
    /\ \E i \in DOMAIN StructuredOutputs(agent) :
        LET out == StructuredOutputs(agent)[i]
        IN
        /\ state' = Merge(state, FormatResponseNode(agent, state, out))
        /\ stored' = (stored \/ Validated(agent, out))
    /\ formatRuns' = formatRuns + 1
    /\ pc' = Edge("format_response")
    /\ UNCHANGED <<agent, agentSteps, modelCalls, toolExecs, lastRoute,
                   lastResponse, retval, parts>>

\* agentInstance.invoke resolved: the top-level invocation returns or throws
Return ==
    /\ pc = "END"
    /\ LET r == Invocation(agent, state)
       IN  IF r.threw
           THEN pc' = "threw" /\ retval' = Null
           ELSE pc' = "returned" /\ retval' = Some(r.value)
    /\ UNCHANGED <<agent, state, agentSteps, modelCalls, toolExecs, formatRuns,
                   stored, lastRoute, lastResponse, parts>>

Next == Agent \/ Tools \/ Format \/ Return

Spec == Init /\ [][Next]_vars

\* every node and the invocation's continuation run to completion
FairSpec == Spec /\ WF_vars(Next)

----------------------------------------------------------------------------
(* The graph run with the structured-output call of format_response kept:  *)
(* what withStructuredOutput(...).invoke returned to the node.             *)

\* the format_response node runs on what the structured-output call
\* returned, its update is merged, the edge leads to END
Coerce ==
    /\ pc = "format_response"
    /\ \E i \in DOMAIN StructuredOutputs(agent) :
        LET out == StructuredOutputs(agent)[i]
        IN
        /\ state' = Merge(state, FormatResponseNode(agent, state, out))
        /\ stored' = (stored \/ Validated(agent, out))
        /\ coercion' = [phase |-> "done", out |-> out]
    /\ formatRuns' = formatRuns + 1
    /\ pc' = Edge("format_response")
    /\ UNCHANGED <<agent, agentSteps, modelCalls, toolExecs, lastRoute,
                   lastResponse, retval, dispatch, budget, bucket, admission,
                   retry>>

FormatNext == Agent \/ Tools \/ Coerce \/ Return

FormatSpec == Init /\ [][FormatNext]_vars

----------------------------------------------------------------------------
(* The transition predicate on its own: shouldContinue applied to agent    *)
(* states drawn from bounded sets, whatever run could have led to them.    *)

\* the answers an agent state of the Voyager may hold
Answers == {Null, Some(<<>>), Some(<<"4", "2">>)}

PredicateInit ==
    /\ agent \in Agents
    /\ \E iterations \in 0..(MaxIter + 1), maxIterations \in 0..MaxIter,
          r \in Responses(agent), answer \in Answers :
        /\ lastResponse = r
        /\ state = [InitialState(agent, maxIterations) EXCEPT
                        !.iterations = iterations,
                        !.messages   = IF agent = "voyager" THEN <<>>
                                       ELSE <<TaskMessage,
                                              AIMessage(r.content, r.tool_calls)>>,
                        !.toolCalls  = IF agent = "voyager" THEN r.tool_calls
                                       ELSE <<>>,
                        !.answer     = IF agent = "voyager" THEN answer ELSE Null]
    /\ pc = "predicate"
    /\ agentSteps = 0
    /\ modelCalls = 0
    /\ toolExecs = 0
    /\ formatRuns = 0
    /\ stored = FALSE
    /\ lastRoute = "start"
    /\ retval = Null
    /\ PartsIdle

Evaluate ==
    /\ pc = "predicate"
    /\ lastRoute' = shouldContinue(agent, state)
    /\ pc' = "evaluated"
    /\ UNCHANGED <<agent, state, agentSteps, modelCalls, toolExecs, formatRuns,
                   stored, lastResponse, retval, parts>>

PredicateSpec == PredicateInit /\ [][Evaluate]_vars

----------------------------------------------------------------------------
(* The tools node on its own, call by call: entered with any list of tool  *)
(* calls a response may carry, each tool.invoke a step that starts and a   *)
(* step that settles.                                                      *)

\* the thoughts the Voyager's state may hold when its tools node runs
Thoughts == {Null, Some(<<"g", "o">>)}

DispatchInit ==
    /\ agent \in Agents
    /\ \E calls \in CallLists(agent), thought \in Thoughts :
        /\ state = [InitialState(agent, MaxIter) EXCEPT
                        !.iterations = 1,
                        !.messages   = IF agent = "voyager" THEN <<>>
                                       ELSE <<TaskMessage,
                                              AIMessage(<<"n", "o">>, calls)>>,
                        !.toolCalls  = IF agent = "voyager" THEN calls ELSE <<>>,
                        !.thought    = IF agent = "voyager" THEN thought ELSE Null]
        /\ dispatch = EnterToolsNode(calls)
    /\ pc = "tools"
    /\ agentSteps = 1
    /\ modelCalls = 1
    /\ toolExecs = 0
    /\ formatRuns = 0
    /\ stored = FALSE
    /\ lastRoute = IF agent = "voyager" THEN "tools" ELSE "continue"
    /\ lastResponse = EmptyResponse
    /\ retval = Null
    /\ budget = NoBudget
    /\ bucket = NoBucket
    /\ admission = NoAdmission
    /\ retry = NoRetry
    /\ coercion = NoCoercion

\* the loop takes up a call that no tool of the registry answers to
Skip ==
    /\ pc = "tools"
    /\ ~Suspended(dispatch.running)
    /\ dispatch.next <= Len(dispatch.toolCalls)
    /\ ~Resolves(agent, dispatch.toolCalls[dispatch.next])
    /\ dispatch' = [dispatch EXCEPT
                        !.next = Resume(agent, dispatch.toolCalls, dispatch.next)]
    /\ UNCHANGED <<graph, budget, bucket, admission, retry, coercion>>

\* the loop takes up a call of a registered tool and calls tool.invoke
Invoke ==
    /\ pc = "tools"
    /\ ~Suspended(dispatch.running)
    /\ dispatch.next <= Len(dispatch.toolCalls)
    /\ Resolves(agent, dispatch.toolCalls[dispatch.next])
    /\ dispatch' = [dispatch EXCEPT
                        !.running  = dispatch.running \cup {dispatch.next},
                        !.executed = Append(dispatch.executed, dispatch.next),
                        !.next = Resume(agent, dispatch.toolCalls, dispatch.next)]
    /\ UNCHANGED <<graph, budget, bucket, admission, retry, coercion>>

\* a tool.invoke settles, with a result or with an error, and its message
\* is pushed
Settle ==
    /\ pc = "tools"
    /\ \E k \in dispatch.running, outcome \in {"ok", "throw"} :
        dispatch' = [dispatch EXCEPT
                        !.running = dispatch.running \ {k},
                        !.toolMessages =
                            dispatch.toolMessages
                                \o Pushed(agent, state, dispatch.toolCalls[k], outcome),
                        !.threw = IF outcome = "throw"
                                  THEN dispatch.threw \cup {k}
                                  ELSE dispatch.threw]
    /\ UNCHANGED <<graph, budget, bucket, admission, retry, coercion>>

\* the loop is over: toolsNode returns, its update is merged, the edge leads
\* to the agent node
ReturnTools ==
    /\ pc = "tools"
    /\ dispatch.next > Len(dispatch.toolCalls)
    /\ dispatch.running = {}
    /\ state' = Merge(state, ToolsNodeReturn(agent, state, dispatch.toolMessages))
    /\ toolExecs' = toolExecs + Len(dispatch.executed)
    /\ pc' = Edge("tools")
    /\ UNCHANGED <<agent, agentSteps, modelCalls, formatRuns, stored, lastRoute,
                   lastResponse, retval, parts>>

DispatchNext == Skip \/ Invoke \/ Settle \/ ReturnTools

DispatchSpec == DispatchInit /\ [][DispatchNext]_vars

----------------------------------------------------------------------------
(* chunkMessage on its own: applied to every message with a content of up  *)
(* to MaxContent characters, for every maxTokens up to MaxChunkTokens.     *)

\* longest content chunked
MaxContent == 8

\* largest maxTokens chunked with
MaxChunkTokens == 2

\* a letter and two of the characters chunkMessage breaks at
ChunkAlphabet == {"a", " ", "."}

Contents == UNION { [1..n -> ChunkAlphabet] : n \in 0..MaxContent }

\* a graph run that has entered the agent node of agent a
InAgentNode(a) ==
    /\ agent = a
    /\ state = InitialState(agent, MaxIter)
    /\ pc = "agent"
    /\ agentSteps = 0
    /\ modelCalls = 0
    /\ toolExecs = 0
    /\ formatRuns = 0
    /\ stored = FALSE
    /\ lastRoute = "start"
    /\ lastResponse = EmptyResponse
    /\ retval = Null

ChunkInit ==
    /\ InAgentNode("manager")
    /\ \E content \in Contents, maxTokens \in 1..MaxChunkTokens,
          message \in {"tool", "ai"} :
        budget = [ phase     |-> "chunk",
                   message   |-> IF message = "tool"
                                 THEN ToolMessage(content, "call_1")
                                 ELSE AIMessage(content, <<>>),
                   maxTokens |-> maxTokens,
                   chunks    |-> <<>> ]
    /\ dispatch = NoDispatch
    /\ bucket = NoBucket
    /\ admission = NoAdmission
    /\ retry = NoRetry
    /\ coercion = NoCoercion

\* chunkMessage(message, maxTokens) returns
ChunkMessage ==
    /\ budget.phase = "chunk"
    /\ budget' = [budget EXCEPT
                    !.phase  = "chunked",
                    !.chunks = chunkMessage(budget.message, budget.maxTokens)]
    /\ UNCHANGED <<graph, dispatch, bucket, admission, retry, coercion>>

ChunkSpec == ChunkInit /\ [][ChunkMessage]_vars

----------------------------------------------------------------------------
(* The budgeter on its own: applied to the agent's system prompt and to    *)
(* every history of up to MaxHistory messages, short and long ones.        *)

\* longest history budgeted
MaxHistory == 2

\* the messages a history is made of, the i-th of them:
\* a short assistant message;
\* a tool result of 30,000 characters (7,500 tokens), without a break;
\* an assistant text of 30,000 characters with one space in the middle;
\* a tool result of 100,004 characters (25,001 tokens), without a break
HistoryMessage(kind, i) ==
    CASE kind = "short" -> AIMessage(<<"o", "k">>, <<>>)
      [] kind = "page"  -> ToolMessage(Rep(30000, "a"), CallIds[i])
      [] kind = "text"  -> AIMessage(Rep(15000, "a") \o <<" ">> \o Rep(14999, "a"),
                                     <<>>)
      [] kind = "big"   -> ToolMessage(Rep(100004, "a"), CallIds[i])

HistoryKinds == {"short", "page", "text", "big"}

Histories ==
    { [i \in 1..n |-> HistoryMessage(kinds[i], i)] :
        n \in 0..MaxHistory, kinds \in [1..MaxHistory -> HistoryKinds] }

\* five messages, each estimated at 7,500 tokens
FiveMessages == [i \in 1..5 |-> HistoryMessage("page", i)]

BudgetInit ==
    /\ \E a \in DevAgents : InAgentNode(a)
    /\ \E messages \in Histories \cup {FiveMessages} :
        budget = [ phase |-> "budget", messages |-> messages,
                   out |-> Budgeter(SystemPrompt(agent), <<>>) ]
    /\ dispatch = NoDispatch
    /\ bucket = NoBucket
    /\ admission = NoAdmission
    /\ retry = NoRetry
    /\ coercion = NoCoercion

\* agentNode has built allMessages from state.messages
RunBudgeter ==
    /\ budget.phase = "budget"
    /\ budget' = [budget EXCEPT
                    !.phase = "sent",
                    !.out   = Budgeter(SystemPrompt(agent), budget.messages)]
    /\ UNCHANGED <<graph, dispatch, bucket, admission, retry, coercion>>

BudgetSpec == BudgetInit /\ [][RunBudgeter]_vars

----------------------------------------------------------------------------
(* The system-message fallback of the budgeter. It is entered only with a  *)
(* system message estimated above CHUNK_SIZE; the prompts of the three     *)
(* agents are far shorter, so the budgeter is applied here to prompts of   *)
(* more than 100,000 characters in their place.                            *)

\* a system message of 100,004 characters (25,001 tokens): without a break,
\* or with a space at index 60,000
LongPrompt(kind) ==
    CASE kind = "solid"  -> SystemMessage(Rep(100004, "s"))
      [] kind = "spaced" -> SystemMessage(Rep(60000, "s") \o <<" ">>
                                            \o Rep(40003, "s"))

LongPromptKinds == {"solid", "spaced"}

FallbackInit ==
    /\ \E a \in DevAgents : InAgentNode(a)
    /\ \E kind \in LongPromptKinds, messages \in Histories \cup {FiveMessages} :
        budget = [ phase |-> "budget", systemMessage |-> LongPrompt(kind),
                   messages |-> messages,
                   out |-> Budgeter(SystemPrompt(agent), <<>>) ]
    /\ dispatch = NoDispatch
    /\ bucket = NoBucket
    /\ admission = NoAdmission
    /\ retry = NoRetry
    /\ coercion = NoCoercion

\* agentNode has built allMessages from systemMessage and state.messages
RunFallback ==
    /\ budget.phase = "budget"
    /\ budget' = [budget EXCEPT
                    !.phase = "sent",
                    !.out   = Budgeter(budget.systemMessage, budget.messages)]
    /\ UNCHANGED <<graph, dispatch, bucket, admission, retry, coercion>>

FallbackSpec == FallbackInit /\ [][RunFallback]_vars

----------------------------------------------------------------------------
(* The budgeter loop by loop: one step per iteration of the while loop of  *)
(* chunkMessage, of the for loop of the chunk pass and of the eviction     *)
(* loop, then the model call and the return of agentNode. chunkMessage is  *)
(* run on its own on every small content, and the team manager's agentNode *)
(* on conversations of the program's real sizes.                           *)

\* most tool results of one assistant message in a conversation
MaxResults == 2

\* the result of the i-th tool call of an assistant message:
\* one of 30,000 characters (7,500 tokens) with a space in the middle;
\* one of 100,004 characters (25,001 tokens) without a break;
\* one of 20,000 characters (5,000 tokens), which is not chunked
Result(kind, i) ==
    CASE kind = "page"  -> ToolMessage(Rep(15000, "a") \o <<" ">> \o Rep(14999, "a"),
                                       CallIds[i])
      [] kind = "big"   -> ToolMessage(Rep(100004, "a"), CallIds[i])
      [] kind = "full"  -> ToolMessage(Rep(20000, "a"), CallIds[i])

ResultKinds == {"page", "big"}

\* an assistant message with one tool call per result, then the results
Turn(kinds) ==
    <<AIMessage(<<"g", "o">>,
                [i \in 1..Len(kinds) |-> ToolCall(CallIds[i], "read_file")])>>
        \o [i \in 1..Len(kinds) |-> Result(kinds[i], i)]

\* state.messages when agentNode is entered after a tools node: the task,
\* the assistant message and the results of its calls
Conversations ==
    { <<TaskMessage>> \o Turn(kinds) :
        kinds \in UNION { [1..n -> ResultKinds] : n \in 1..MaxResults } }
      \cup { <<TaskMessage>> \o Turn([i \in 1..5 |-> "full"]) }

\* what the model answers to the messages sent
LoopResponses ==
    { Response(<<"o", "k">>, <<>>),
      Response(<<"n", "o">>, <<ToolCall("call_1", "read_file")>>) }

\* the locals of agentNode (caller "agentNode") or of one call of
\* chunkMessage (caller "chunkMessage"), before anything has run
Locals(caller, messages) ==
    [ caller            |-> caller,
      phase             |-> IF caller = "agentNode" THEN "for" ELSE "call",
      messages          |-> messages,
      i                 |-> 1,
      message           |-> TaskMessage,
      maxChars          |-> 0,
      startIndex        |-> 0,
      chunks            |-> <<>>,
      iterations        |-> 0,
      processedMessages |-> <<>>,
      filteredMessages  |-> <<>>,
      evictions         |-> 0,
      allMessages       |-> <<>>,
      returned          |-> <<>> ]

LoopInit ==
    /\ \/ /\ InAgentNode("manager")
          /\ \E content \in Contents, maxTokens \in 1..MaxChunkTokens :
                budget = [Locals("chunkMessage", <<ToolMessage(content, "call_1")>>)
                            EXCEPT !.maxChars = maxTokens * 4]
       \/ /\ agent = "manager"
          /\ \E messages \in Conversations :
                /\ state = [InitialState(agent, MaxIter) EXCEPT !.messages = messages]
                /\ budget = Locals("agentNode", messages)
          /\ pc = "agent"
          /\ agentSteps = 0
          /\ modelCalls = 0
          /\ toolExecs = 0
          /\ formatRuns = 0
          /\ stored = FALSE
          /\ lastRoute = "start"
          /\ lastResponse = EmptyResponse
          /\ retval = Null
    /\ dispatch = NoDispatch
    /\ bucket = NoBucket
    /\ admission = NoAdmission
    /\ retry = NoRetry
    /\ coercion = NoCoercion

\* chunkMessage(message, maxTokens) is entered: a message within maxChars is
\* returned as it is, a longer one goes through the while loop
EnterChunkMessage(locals, message, maxChars) ==
    IF Len(message.content) = 0 \/ Len(message.content) <= maxChars
    THEN [locals EXCEPT !.phase = "return", !.message = message,
                        !.maxChars = maxChars, !.chunks = <<message>>,
                        !.startIndex = 0, !.iterations = 0]
    ELSE [locals EXCEPT !.phase = "while", !.message = message,
                        !.maxChars = maxChars, !.chunks = <<>>,
                        !.startIndex = 0, !.iterations = 0]

\* chunkMessage is called on its own
CallChunkMessage ==
    /\ budget.phase = "call"
    /\ budget' = EnterChunkMessage(budget, budget.messages[1], budget.maxChars)
    /\ UNCHANGED <<graph, dispatch, bucket, admission, retry, coercion>>

\* one iteration of for (const message of messages)
ForMessage ==
    /\ budget.phase = "for"
    /\ budget.i <= Len(budget.messages)
    /\ LET message == budget.messages[budget.i]
       IN  budget' =
             IF estimateTokens(<<message>>) > PER_MESSAGE_TOKENS
             THEN EnterChunkMessage(budget, message, PER_MESSAGE_TOKENS * 4)
             ELSE [budget EXCEPT
                     !.processedMessages = Append(@, message),
                     !.i = @ + 1]
    /\ UNCHANGED <<graph, dispatch, bucket, admission, retry, coercion>>

\* one iteration of while (startIndex < content.length)
WhileChunk ==
    /\ budget.phase = "while"
    /\ budget.startIndex < Len(budget.message.content)
    /\ LET chunkEnd == ChunkEnd(budget.message.content, budget.maxChars,
                                budget.startIndex)
       IN  budget' = [budget EXCEPT
                        !.chunks = Append(@, Chunk(budget.message, budget.maxChars,
                                                   budget.startIndex, chunkEnd)),
                        !.startIndex = chunkEnd,
                        !.iterations = @ + 1]
    /\ UNCHANGED <<graph, dispatch, bucket, admission, retry, coercion>>

\* chunkMessage returns its chunks: to the chunk pass, which pushes them,
\* or to the caller of the call on its own
ChunkReturn ==
    /\ \/ budget.phase = "return"
       \/ /\ budget.phase = "while"
          /\ budget.startIndex >= Len(budget.message.content)
    /\ budget' =
         IF budget.caller = "agentNode"
         THEN [budget EXCEPT
                 !.phase = "for",
                 !.processedMessages = @ \o budget.chunks,
                 !.i = @ + 1]
         ELSE [budget EXCEPT !.phase = "chunked"]
    /\ UNCHANGED <<graph, dispatch, bucket, admission, retry, coercion>>

\* let filteredMessages = [...processedMessages]
StartEviction ==
    /\ budget.phase = "for"
    /\ budget.i > Len(budget.messages)
    /\ budget' = [budget EXCEPT
                    !.phase = "evict",
                    !.filteredMessages = budget.processedMessages]
    /\ UNCHANGED <<graph, dispatch, bucket, admission, retry, coercion>>

\* one iteration of the eviction loop
EvictMessage ==
    /\ budget.phase = "evict"
    /\ estimateTokens(<<SystemPrompt(agent)>> \o budget.filteredMessages) > CHUNK_SIZE
    /\ Len(budget.filteredMessages) > 0
    /\ budget' = [budget EXCEPT
                    !.filteredMessages = Tail(@),
                    !.evictions = @ + 1]
    /\ UNCHANGED <<graph, dispatch, bucket, admission, retry, coercion>>

\* return { ...state, messages: [...messages, response], iterations: + 1 }
\* with the messages of its own agentNode has sent, not those of the state
AgentNodeReturnsSent(st, locals, response) ==
    [st EXCEPT
        !.messages = Append(locals.filteredMessages,
                            AIMessage(response.content, response.tool_calls)),
        !.iterations = st.iterations + 1]

\* return { ...state, messages: [...messages, response], iterations: + 1 }
AgentNodeReturn(st, locals, response) ==
    [st EXCEPT
        !.messages = Append(locals.messages,
                            AIMessage(response.content, response.tool_calls)),
        !.iterations = st.iterations + 1]

\* the eviction loop is left, allMessages goes to the model and agentNode
\* returns with the response
SendAndReturn ==
    /\ budget.phase = "evict"
    /\ ~ ( /\ estimateTokens(<<SystemPrompt(agent)>> \o budget.filteredMessages)
                > CHUNK_SIZE
           /\ Len(budget.filteredMessages) > 0 )
    /\ \E response \in LoopResponses :
        LET update == AgentNodeReturn(state, budget, response)
        IN  /\ budget' = [budget EXCEPT
                            !.phase = "returned",
                            !.allMessages = <<SystemPrompt(agent)>>
                                                \o budget.filteredMessages,
                            !.returned = update.messages]
            /\ state' = Merge(state, update)
            /\ lastResponse' = response
    /\ agentSteps' = agentSteps + 1
    /\ modelCalls' = modelCalls + 1
    /\ UNCHANGED <<agent, pc, toolExecs, formatRuns, stored, lastRoute, retval>>
    /\ UNCHANGED <<dispatch, bucket, admission, retry, coercion>>

LoopNext ==
    \/ CallChunkMessage
    \/ ForMessage
    \/ WhileChunk
    \/ ChunkReturn
    \/ StartEviction
    \/ EvictMessage
    \/ SendAndReturn

LoopSpec == LoopInit /\ [][LoopNext]_vars

----------------------------------------------------------------------------
(* modelTokenBucket, the token bucket the Voyager's agentNode calls take   *)
(* on. Its implementation is not part of the sources at hand: the bucket   *)
(* is modelled from its contract take(amount) -> wait_ms. Amounts of       *)
(* tokens are held in thousandths of a token and times in milliseconds, so *)
(* that elapsed * rate is a whole number.                                  *)

\* capacity of the bucket, in tokens
BucketCapacity == 3

\* refill rate, in tokens per second
BucketRate == 10

\* largest amount asked of take, in tokens
MaxAmount == 4

\* the clock advances in steps of TickMs milliseconds, MaxTicks times at most
TickMs == 100
MaxTicks == 4

\* the bucket when created, holding available thousandths of a token
NewBucket(available) ==
    [ capacity   |-> BucketCapacity * 1000,
      rate       |-> BucketRate,
      available  |-> available,
      lastRefill |-> 0,
      now        |-> 0,      \* the clock
      lastWait   |-> 0,      \* history: what the last take returned
      granted    |-> 0,      \* history: the amounts granted, summed
      capped     |-> FALSE,  \* history: a refill was cut at the capacity
      initial    |-> available, \* history: what the bucket held when created
      refilled   |-> 0,      \* history: what the refills added, summed
      asked      |-> 0,      \* history: the amount of the last take
      before     |-> available ] \* history: available when the last take
                                 \* had refilled and not yet decided

\* Refill that does not stop at the capacity
RefillUncapped(b) ==
    [b EXCEPT !.available  = b.available + (b.now - b.lastRefill) * b.rate,
              !.lastRefill = b.now,
              !.capped     = b.capped,
              !.refilled   = b.refilled + (b.now - b.lastRefill) * b.rate]

\* available = min(capacity, available + elapsed * rate)
Refill(b) ==
    [b EXCEPT !.available  = Min(b.capacity,
                                 b.available + (b.now - b.lastRefill) * b.rate),
              !.lastRefill = b.now,
              !.capped     = b.capped \/
                             b.available + (b.now - b.lastRefill) * b.rate
                                > b.capacity,
              !.refilled   = b.refilled
                                + Min(b.capacity,
                                      b.available + (b.now - b.lastRefill) * b.rate)
                                - b.available]

\* take that grants without deducting
takeGrantKeepsTokens(b, amount) ==
    LET r == [Refill(b) EXCEPT !.asked = amount * 1000,
                               !.before = Refill(b).available]
    IN  IF r.available >= amount * 1000
        THEN [r EXCEPT !.lastWait  = 0,
                       !.granted   = r.granted + amount * 1000]
        ELSE [r EXCEPT !.lastWait  = Ceil(amount * 1000 - r.available, r.rate)]

\* take that keeps what is available for the caller it sends to wait
takeRefusalDrains(b, amount) ==
    LET r == [Refill(b) EXCEPT !.asked = amount * 1000,
                               !.before = Refill(b).available]
    IN  IF r.available >= amount * 1000
        THEN [r EXCEPT !.available = r.available - amount * 1000,
                       !.lastWait  = 0,
                       !.granted   = r.granted + amount * 1000]
        ELSE [r EXCEPT !.available = 0,
                       !.lastWait  = Ceil(amount * 1000 - r.available, r.rate)]

\* take that compares the amount with the capacity, not with what is available
takeChecksCapacity(b, amount) ==
    LET r == [Refill(b) EXCEPT !.asked = amount * 1000,
                               !.before = Refill(b).available]
    IN  IF r.capacity >= amount * 1000
        THEN [r EXCEPT !.available = r.available - amount * 1000,
                       !.lastWait  = 0,
                       !.granted   = r.granted + amount * 1000]
        ELSE [r EXCEPT !.lastWait  = Ceil(amount * 1000 - r.available, r.rate)]

\* take(amount): refill, then grant (deduct, return 0) or return the wait in
\* milliseconds, ceil((amount - available) / rate * 1000), and deduct nothing
take(b, amount) ==
    LET r == [Refill(b) EXCEPT !.asked = amount * 1000,
                               !.before = Refill(b).available]
    IN  IF r.available >= amount * 1000
        THEN [r EXCEPT !.available = r.available - amount * 1000,
                       !.lastWait  = 0,
                       !.granted   = r.granted + amount * 1000]
        ELSE [r EXCEPT !.lastWait  = Ceil(amount * 1000 - r.available, r.rate)]

BucketInit ==
    /\ InAgentNode("voyager")
    /\ \E tokens \in 0..BucketCapacity : bucket = NewBucket(tokens * 1000)
    /\ dispatch = NoDispatch
    /\ budget = NoBudget
    /\ admission = NoAdmission
    /\ retry = NoRetry
    /\ coercion = NoCoercion

\* time passes
Tick ==
    /\ bucket.now < MaxTicks * TickMs
    /\ bucket' = [bucket EXCEPT !.now = bucket.now + TickMs]
    /\ UNCHANGED <<graph, dispatch, budget, admission, retry, coercion>>

\* some agent calls modelTokenBucket.take(amount)
Take ==
    /\ \E amount \in 1..MaxAmount : bucket' = take(bucket, amount)
    /\ UNCHANGED <<graph, dispatch, budget, admission, retry, coercion>>

BucketNext == Tick \/ Take

BucketSpec == BucketInit /\ [][BucketNext]_vars

----------------------------------------------------------------------------
(* The loop around modelTokenBucket.take of the Voyager's agentNode, run by *)
(* several agent instances of one process on the one bucket. The code      *)
(* between two awaits runs without any other instance running; the clock   *)
(* may advance between any two readings of it.                             *)

\* the agent instances that share the bucket: two answerQuestion calls in
\* flight at the same time
Callers == {"first", "second"}

\* if (estimatedTokens > 100_000) estimatedTokens = 100_000
MAX_ESTIMATED_TOKENS == 100000

\* EnterAdmission without the cap on the estimate
EnterAdmissionUncapped(estimate) ==
    [ at              |-> "while",
      estimatedTokens |-> estimate,
      timeoutTime     |-> 0,
      wakeAt          |-> 0,
      debits          |-> 0,
      unslept         |-> 0 ]

\* the locals of an agentNode that reaches the loop with an estimate
EnterAdmission(estimate) ==
    [ at              |-> "while",  \* "while", "body", "sleep" or "invoke"
      estimatedTokens |-> Min(estimate, MAX_ESTIMATED_TOKENS),
      timeoutTime     |-> 0,        \* const timeoutTime
      wakeAt          |-> 0,        \* when the setTimeout fires
      debits          |-> 0,        \* history: takes that returned 0
      unslept         |-> 0 ]       \* history: takes that returned a wait
                                    \* which was not slept on

\* no other instance is between the loop's condition and the take of its body
Scheduled(c) == \A d \in Callers \ {c} : admission.loop[d].at # "body"

AdmissionInit ==
    /\ InAgentNode("voyager")
    /\ \E tokens \in 0..BucketCapacity : bucket = NewBucket(tokens * 1000)
    /\ \E estimates \in [Callers -> 1..MaxAmount] :
        admission = [ phase |-> "run",
                      loop  |-> [c \in Callers |-> EnterAdmission(estimates[c])] ]
    /\ dispatch = NoDispatch
    /\ budget = NoBudget
    /\ retry = NoRetry
    /\ coercion = NoCoercion

\* while (modelTokenBucket.take(estimatedTokens) !== 0): the condition
WhileTake(c) ==
    /\ admission.loop[c].at = "while"
    /\ Scheduled(c)
    /\ bucket' = take(bucket, admission.loop[c].estimatedTokens)
    /\ admission' =
            [admission EXCEPT !.loop[c] =
                IF bucket'.lastWait = 0
                THEN [@ EXCEPT !.at = "invoke", !.debits = @ + 1]
                ELSE [@ EXCEPT !.at = "body"]]
    /\ UNCHANGED <<graph, dispatch, budget, retry, coercion>>

\* const timeoutTime = modelTokenBucket.take(estimatedTokens); setTimeout
BodyTake(c) ==
    /\ admission.loop[c].at = "body"
    /\ bucket' = take(bucket, admission.loop[c].estimatedTokens)
    /\ admission' =
            [admission EXCEPT !.loop[c] =
                [@ EXCEPT !.at = "sleep",
                          !.timeoutTime = bucket'.lastWait,
                          !.wakeAt = bucket'.now + bucket'.lastWait,
                          !.debits = IF bucket'.lastWait = 0 THEN @ + 1 ELSE @,
                          !.unslept = @ + 1]]
    /\ UNCHANGED <<graph, dispatch, budget, retry, coercion>>

\* the timer fired: the loop evaluates its condition again
Wake(c) ==
    /\ admission.loop[c].at = "sleep"
    /\ Scheduled(c)
    /\ bucket.now >= admission.loop[c].wakeAt
    /\ admission' = [admission EXCEPT !.loop[c].at = "while"]
    /\ UNCHANGED <<graph, dispatch, budget, bucket, retry, coercion>>

AdmissionNext ==
    \/ \E c \in Callers : WhileTake(c)
    \/ \E c \in Callers : BodyTake(c)
    \/ \E c \in Callers : Wake(c)
    \/ Tick

AdmissionSpec == AdmissionInit /\ [][AdmissionNext]_vars

----------------------------------------------------------------------------
(* The same loop run by one agent instance alone on the bucket, with its   *)
(* estimate below or above the cap of 100,000 tokens. Time passes while    *)
(* the instance sleeps: the timer of setTimeout comes due.                 *)

\* the instance that runs; the other one has no answerQuestion in flight
Solo == "first"

\* the latest time a sleep for an amount within the capacity can end at
Horizon == MaxTicks * TickMs + Ceil(BucketCapacity * 1000, BucketRate)

SoloInit ==
    /\ InAgentNode("voyager")
    /\ \E tokens \in 0..BucketCapacity : bucket = NewBucket(tokens * 1000)
    /\ \E estimate \in (1..MaxAmount) \cup {MAX_ESTIMATED_TOKENS + 1} :
        admission =
            [ phase |-> "run",
              loop  |-> [c \in Callers |->
                            IF c = Solo THEN EnterAdmission(estimate)
                            ELSE [EnterAdmission(1) EXCEPT !.at = "away"]] ]
    /\ dispatch = NoDispatch
    /\ budget = NoBudget
    /\ retry = NoRetry
    /\ coercion = NoCoercion

\* the clock reaches the time the timer of the sleeping instance was set to
TimerDue ==
    /\ admission.loop[Solo].at = "sleep"
    /\ bucket.now < admission.loop[Solo].wakeAt
    /\ admission.loop[Solo].wakeAt <= Horizon
    /\ bucket' = [bucket EXCEPT !.now = admission.loop[Solo].wakeAt]
    /\ UNCHANGED <<graph, dispatch, budget, admission, retry, coercion>>

SoloNext ==
    \/ WhileTake(Solo)
    \/ BodyTake(Solo)
    \/ Wake(Solo)
    \/ Tick
    \/ TimerDue

SoloSpec == SoloInit /\ [][SoloNext]_vars

\* the event loop runs the instance whenever it can go on, and a timer that
\* was set comes due
FairSoloSpec ==
    /\ SoloSpec
    /\ WF_vars(WhileTake(Solo))
    /\ WF_vars(BodyTake(Solo))
    /\ WF_vars(Wake(Solo))
    /\ WF_vars(TimerDue)

----------------------------------------------------------------------------
(* The for loop around modelInstance.invoke of agentNode, call by call,    *)
(* for every script of three answers of the model.                         *)

\* what the model may answer to one call
Answered(a) ==
    { EmptyResponse, EmptyWithCall(a), Response(<<"o", "k">>, <<>>),
      Response(<<"n", "o">>,
               <<ToolCall("call_1", IF a = "voyager" THEN "click" ELSE "read_file")>>) }

\* the locals when the loop is entered; script is what the model will answer
EnterRetry(script) ==
    [ phase    |-> "loop",   \* "loop", then "accepted", then "returned"
      script   |-> script,
      i        |-> 0,        \* let i = 0
      response |-> EmptyResponse,  \* let response (not yet assigned)
      received |-> <<>> ]    \* history: the responses of the calls made

\* Breaks for a loop that also stops on a response with tool calls
BreaksOnToolCalls(response) ==
    Len(response.content) > 0 \/ Len(response.tool_calls) > 0

\* if (response.content.length > 0) break
Breaks(response) == Len(response.content) > 0

RetryInit ==
    /\ \E a \in Agents : InAgentNode(a)
    /\ \E script \in [1..MAX_ATTEMPTS -> Answered(agent)] :
            retry = EnterRetry(script)
    /\ dispatch = NoDispatch
    /\ budget = NoBudget
    /\ bucket = NoBucket
    /\ admission = NoAdmission
    /\ coercion = NoCoercion

\* response = await this.modelInstance.invoke(...); break, or i++ and the
\* test i < 3
InvokeModel ==
    /\ retry.phase = "loop"
    /\ LET response == retry.script[retry.i + 1]
       IN  retry' = [retry EXCEPT
                        !.response = response,
                        !.received = Append(@, response),
                        !.i     = IF Breaks(response) THEN @ ELSE @ + 1,
                        !.phase = IF Breaks(response) \/ retry.i + 1 >= MAX_ATTEMPTS
                                  THEN "accepted" ELSE "loop"]
    /\ UNCHANGED <<graph, dispatch, budget, bucket, admission, coercion>>

\* agentNode returns its update with the response the loop left, the update
\* is merged, shouldContinue picks the next node
AgentReturn ==
    /\ retry.phase = "accepted"
    /\ pc = "agent"
    /\ LET response == retry.response
           upd == AgentNode(agent, state, <<response, response, response>>)
           new == Merge(state, upd)
       IN  /\ state' = new
           /\ lastRoute' = shouldContinue(agent, new)
           /\ pc' = ConditionalEdge(agent, shouldContinue(agent, new))
           /\ lastResponse' = response
           /\ stored' = (stored \/ (agent = "voyager" /\ upd.answer # Null))
    /\ modelCalls' = Len(retry.received)
    /\ agentSteps' = agentSteps + 1
    /\ retry' = [retry EXCEPT !.phase = "returned"]
    /\ UNCHANGED <<agent, toolExecs, formatRuns, retval, dispatch, budget, bucket,
                   admission, coercion>>

RetryNext == InvokeModel \/ AgentReturn

RetrySpec == RetryInit /\ [][RetryNext]_vars

----------------------------------------------------------------------------
(* Properties.                                                             *)

\* the run ended in the first branch of shouldContinue
BudgetExhausted ==
    /\ lastRoute = "end"
    /\ state.iterations >= state.maxIterations

\* the content carries a structural marker: "{" or a fenced code block
HasMarker(content) == Includes(content, <<"{">>) \/ Includes(content, Fence)

Ended == pc \in {"END", "returned", "threw"}

\* C1: in every agent state with iterations >= maxIterations, shouldContinue
\* returns "end", whatever the tool calls and the content of the latest
\* response.
C1_BudgetReturnsEnd ==
    (pc = "evaluated" /\ state.iterations >= state.maxIterations)
        => lastRoute = "end"

\* C1 witness: a state past its budget whose latest response carries a tool
\* call and a "{", evaluated to "end".
C1_Witness ==
    /\ pc = "evaluated"
    /\ agent = "manager"
    /\ state.iterations > state.maxIterations
    /\ Len(lastResponse.tool_calls) > 0
    /\ Includes(lastResponse.content, <<"{">>)
    /\ lastRoute = "end"

ExhaustedSentinel == "Maximum iterations reached. Unable to complete task."

\* C3 (as claimed): when a run of a free-text agent reaches END on an
\* exhausted budget with no result produced, the slot holds the sentinel.
C3_ExhaustionSetsSentinel ==
    (pc = "END" /\ BudgetExhausted /\ ~stored /\ agent \in {"manager", "voyager"})
        => IF agent = "manager"
           THEN state.plan = Some(ExhaustedSentinel)
           ELSE state.answer = Some(<<ExhaustedSentinel>>)

\* C4 (as claimed): a run that ends on an exhausted budget does not make the
\* top-level invocation throw.
C4_ExhaustionDoesNotThrow ==
    BudgetExhausted => pc # "threw"

\* C5 (as claimed): the top-level invocation throws exactly when no node ever
\* stored a result in the terminal-result slot.
C5_ThrowsIffNeverStored ==
    pc \in {"returned", "threw"} => ((pc = "threw") <=> ~stored)

\* C6 (as claimed): an agent step within budget whose response has no tool
\* call and no structural marker is followed by the agent node again.
C6_PlainResponsePromptsAgain ==
    [][ ( /\ pc = "agent"
          /\ state'.iterations < state'.maxIterations
          /\ Len(lastResponse'.tool_calls) = 0
          /\ ~HasMarker(lastResponse'.content) )
        => pc' = "agent" ]_vars

\* C7 (as claimed): a format_response step whose validation failed (it
\* appended the corrective message) is followed by the agent node while
\* iterations < maxIterations.
C7_InvalidFormatReturnsToLoop ==
    [][ ( /\ pc = "format_response"
          /\ state'.messages[Len(state'.messages)] = CorrectiveMessage
          /\ state'.iterations < state'.maxIterations )
        => pc' = "agent" ]_vars

\* C8: the node after tools is always agent, the node after format_response
\* is always END, and format_response runs at most once per invocation.
C8_FixedEdges ==
    [][ /\ pc = "tools" => pc' = "agent"
        /\ pc = "format_response" => pc' = "END"
        /\ formatRuns' <= 1 ]_vars

\* C8 witness: a run that went through tools and through format_response.
C8_Witness ==
    /\ pc = "END"
    /\ formatRuns = 1
    /\ toolExecs >= 1

\* C9: once iterations has reached maxIterations the tools node is never
\* entered; with maxIterations = 1 a run ends after exactly one agent step
\* and no tool execution.
C9_NoToolsAfterBudget ==
    /\ state.iterations >= state.maxIterations => pc # "tools"
    /\ (state.maxIterations = 1 /\ Ended) => (agentSteps = 1 /\ toolExecs = 0)

\* C9 witness: maxIterations = 1, the only response asked for a registered
\* tool, and the run is at END with nothing executed.
C9_Witness ==
    /\ pc = "END"
    /\ state.maxIterations = 1
    /\ agentSteps = 1
    /\ \E i \in 1..Len(lastResponse.tool_calls) :
            lastResponse.tool_calls[i].name \in Registry(agent)
    /\ toolExecs = 0

\* from message i on, with ids the tool-call ids of the nearest assistant
\* message before i: every tool message answers one of ids
RECURSIVE Paired(_, _, _)
Paired(msgs, i, ids) ==
    IF i > Len(msgs) THEN TRUE
    ELSE IF msgs[i].role = "ai"
         THEN Paired(msgs, i + 1,
                     { msgs[i].tool_calls[k].id : k \in 1..Len(msgs[i].tool_calls) })
    ELSE IF msgs[i].role = "tool"
         THEN msgs[i].tool_call_id \in ids /\ Paired(msgs, i + 1, ids)
    ELSE Paired(msgs, i + 1, ids)

\* C10: every tool message's tool_call_id is the id of a tool call of the
\* nearest assistant message before it.
C10_ToolMessagesPaired == Paired(state.messages, 1, {})

\* C10 witness: tool messages answering calls of different assistant
\* messages, two of them of the same turn.
C10_Witness ==
    /\ \E i \in 1..Len(state.messages) :
            /\ state.messages[i].role = "tool"
            /\ state.messages[i].tool_call_id = "call_5"
    /\ \E i \in 1..Len(state.messages) :
            /\ state.messages[i].role = "tool"
            /\ state.messages[i].tool_call_id = "call_4"
    /\ \E i \in 1..Len(state.messages) :
            /\ state.messages[i].role = "tool"
            /\ state.messages[i].tool_call_id = "call_1"

----------------------------------------------------------------------------
(* Properties of the tools node.                                           *)

Range(s) == { s[i] : i \in 1..Len(s) }

\* the tool messages of msgs that answer the call id
TaggedWith(msgs, id) ==
    { i \in 1..Len(msgs) : msgs[i].role = "tool" /\ msgs[i].tool_call_id = id }

\* the positions of the calls whose name is in the registry of a
Registered(a, calls) == { k \in 1..Len(calls) : calls[k].name \in Registry(a) }

\* the elements of a set of numbers, smallest first
RECURSIVE Ascending(_)
Ascending(S) ==
    IF S = {} THEN <<>>
    ELSE LET m == CHOOSE x \in S : \A y \in S : x <= y
         IN  <<m>> \o Ascending(S \ {m})

\* s is the beginning of t
IsPrefix(s, t) == Len(s) <= Len(t) /\ SubSeq(t, 1, Len(s)) = s

\* C11: a tool call whose name is not in the registry is never invoked and
\* no message answers it, neither in toolMessages nor in the conversation;
\* the registered calls of the same list are all invoked and there is one
\* message per registered call (team manager, code writer, code reviewer);
\* the Voyager's scratchpad gets nothing for an unregistered first call.
C11_UnregisteredCallSkipped ==
    LET calls == dispatch.toolCalls
    IN  /\ \A k \in 1..Len(calls) :
              calls[k].name \notin Registry(agent) =>
                  /\ k \notin Range(dispatch.executed)
                  /\ agent \in DevAgents =>
                        /\ TaggedWith(dispatch.toolMessages, calls[k].id) = {}
                        /\ TaggedWith(state.messages, calls[k].id) = {}
        /\ (pc = "agent" /\ agent \in DevAgents) =>
              /\ Registered(agent, calls) \subseteq Range(dispatch.executed)
              /\ Len(dispatch.toolMessages) = Cardinality(Registered(agent, calls))
        /\ (pc = "agent" /\ agent = "voyager" /\ 1 \notin Registered(agent, calls)) =>
              state.scratchpad = <<>>

\* C11 witness: the team manager's tools node returned from a list whose
\* first call is unregistered and whose second call was invoked.
C11_Witness ==
    /\ pc = "agent"
    /\ agent = "manager"
    /\ Len(dispatch.toolCalls) = 2
    /\ dispatch.toolCalls[1].name \notin Registry(agent)
    /\ dispatch.executed = <<2>>
    /\ Len(dispatch.toolMessages) = 1

\* C12: for the team manager, the code writer and the code reviewer, a call
\* whose tool threw is answered by exactly one tool message, tagged with the
\* call's id and containing error.message, in toolMessages and then in the
\* conversation; the tools node never throws, and the node after it is the
\* agent node.
C12_ToolFailureCaptured ==
    /\ [](agent \in DevAgents =>
            /\ pc \in {"tools", "agent"}
            /\ \A k \in dispatch.threw :
                  LET answers == TaggedWith(dispatch.toolMessages,
                                            dispatch.toolCalls[k].id)
                  IN  /\ Cardinality(answers) = 1
                      /\ \A i \in answers :
                            Includes(dispatch.toolMessages[i].content, ErrorMessage)
                      /\ pc = "agent" =>
                            Cardinality(TaggedWith(state.messages,
                                                   dispatch.toolCalls[k].id)) = 1)
    /\ [][(pc = "tools" /\ pc' # "tools") => pc' = "agent"]_vars

\* C12 witness: the tools node returned although a tool threw, and a later
\* call of the list was invoked after the failure and did not throw.
C12_Witness ==
    /\ pc = "agent"
    /\ agent \in DevAgents
    /\ \E k \in dispatch.threw :
          \E j \in Range(dispatch.executed) \ dispatch.threw : j > k

\* C13: for the team manager, the code writer and the code reviewer, the
\* calls invoked so far are the first registered calls of the list, in list
\* order and once each; when the node returns every registered call has been
\* invoked, toolMessages holds one tool message per registered call, in the
\* order of the calls, each tagged with its call's id, and these are the
\* last messages of the conversation.
C13_ExhaustiveInOrder ==
    agent \in DevAgents =>
        LET calls      == dispatch.toolCalls
            resolvable == Ascending(Registered(agent, calls))
            msgs       == dispatch.toolMessages
        IN  /\ IsPrefix(dispatch.executed, resolvable)
            /\ pc = "agent" =>
                  /\ dispatch.executed = resolvable
                  /\ toolExecs = Len(resolvable)
                  /\ Len(msgs) = Len(resolvable)
                  /\ \A j \in 1..Len(msgs) :
                        /\ msgs[j].role = "tool"
                        /\ msgs[j].tool_call_id = calls[resolvable[j]].id
                  /\ SubSeq(state.messages, Len(state.messages) - Len(msgs) + 1,
                            Len(state.messages)) = msgs

\* C13 witness: the code writer's tools node returned from a list of three
\* calls, the second of them unregistered, with two tool messages.
C13_Witness ==
    /\ pc = "agent"
    /\ agent = "writer"
    /\ Len(dispatch.toolCalls) = 3
    /\ dispatch.executed = <<1, 3>>
    /\ Len(dispatch.toolMessages) = 2

\* C14: the Voyager's tools node invokes at most one tool, and only for the
\* first call of the list; when it has returned the pending tool-call list
\* is empty.
C14_FirstOnly ==
    agent = "voyager" =>
        /\ Len(dispatch.executed) <= 1
        /\ Range(dispatch.executed) \subseteq {1}
        /\ pc = "agent" =>
              /\ state.toolCalls = <<>>
              /\ toolExecs <= 1
              /\ Len(state.scratchpad) = Len(dispatch.executed)

\* C14 witness: the Voyager's tools node returned from a list whose first
\* call is unregistered and whose second call is registered, with no tool
\* invoked.
C14_Witness ==
    /\ pc = "agent"
    /\ agent = "voyager"
    /\ Len(dispatch.toolCalls) >= 2
    /\ dispatch.toolCalls[1].name \notin Registry(agent)
    /\ dispatch.toolCalls[2].name \in Registry(agent)
    /\ dispatch.executed = <<>>

\* C15: at most one tool.invoke is unsettled at any time, and a call is
\* invoked only when every call invoked before it has settled and its
\* message has been pushed.
C15_SequentialExecution ==
    /\ Cardinality(dispatch.running) <= 1
    /\ Len(dispatch.toolMessages) =
            Len(dispatch.executed) - Cardinality(dispatch.running)

\* C15 witness: the second call is running, the message of the first one is
\* recorded.
C15_Witness ==
    /\ agent \in DevAgents
    /\ dispatch.running = {2}
    /\ dispatch.executed = <<1, 2>>
    /\ Len(dispatch.toolMessages) = 1

----------------------------------------------------------------------------
(* Properties of the format_response node.                                 *)

\* the terminal-result slot of an agent's state
Slot(a, st) ==
    CASE a = "manager"  -> st.plan
      [] a = "writer"   -> st.success
      [] a = "reviewer" -> <<st.success, st.approved, st.suggestions>>
      [] a = "voyager"  -> st.answer

\* the slot values that conform to the agent's result schema
SchemaValues(a) ==
    CASE a = "manager"  -> { Some("the plan"), Some(""), Some("raw plan") }
      [] a = "writer"   -> BOOLEAN
      [] a = "reviewer" -> BOOLEAN \X BOOLEAN \X { <<>>, <<"rename">> }

\* C16: a format_response step either appends the corrective message and
\* leaves the slot exactly as it was, or appends the validated response,
\* leaves the slot holding a value of the agent's result schema, and goes
\* to END.
C16_FormatStoresValidatedOnly ==
    [][ pc = "format_response" =>
            LET last == state'.messages[Len(state'.messages)]
            IN  IF last = CorrectiveMessage
                THEN Slot(agent, state') = Slot(agent, state)
                ELSE /\ last = AIMessage(ValidatedContent, <<>>)
                     /\ Slot(agent, state') \in SchemaValues(agent)
                     /\ pc' = "END" ]_vars

\* C16 witness: the code reviewer's format_response stored a validated
\* review with a suggestion list, and the run is at END.
C16_Witness ==
    /\ pc = "END"
    /\ agent = "reviewer"
    /\ formatRuns = 1
    /\ stored
    /\ Slot(agent, state) = <<TRUE, FALSE, <<"rename">>>>

----------------------------------------------------------------------------
(* Properties of the context budgeter.                                     *)

\* C17: when the system prompt and the history together are estimated above
\* CHUNK_SIZE, what the budgeter sends is estimated at CHUNK_SIZE or less,
\* or it is a single system message with no history message.
C17_BudgeterFitsOrEmpties ==
    ( /\ budget.phase = "sent"
      /\ estimateTokens(<<SystemPrompt(agent)>> \o budget.messages) > CHUNK_SIZE )
        => \/ /\ budget.out.tokenEstimate <= CHUNK_SIZE
              /\ estimateTokens(budget.out.allMessages) <= CHUNK_SIZE
           \/ /\ Len(budget.out.allMessages) = 1
              /\ budget.out.allMessages[1].role = "system"

\* C17 witness: a history estimated above CHUNK_SIZE of which the budgeter
\* evicted the oldest message and kept later ones, within CHUNK_SIZE.
C17_Witness ==
    /\ budget.phase = "sent"
    /\ estimateTokens(<<SystemPrompt(agent)>> \o budget.messages) > CHUNK_SIZE
    /\ Len(budget.out.allMessages) > 1
    /\ budget.out.allMessages[2] # budget.messages[1]
    /\ budget.out.tokenEstimate <= CHUNK_SIZE

EndsWith(content, suffix) ==
    /\ Len(content) >= Len(suffix)
    /\ SubSeq(content, Len(content) - Len(suffix) + 1, Len(content)) = suffix

\* the content of a chunk with its ' [Chunk k]' suffix removed
StripLabel(content) ==
    IF \E k \in 1..(MaxContent + 1) : EndsWith(content, ChunkLabel(k))
    THEN LET k == CHOOSE k \in 1..(MaxContent + 1) : EndsWith(content, ChunkLabel(k))
         IN  SubSeq(content, 1, Len(content) - Len(ChunkLabel(k)))
    ELSE content

\* the contents of the chunks from chunk i on, labels removed, concatenated
RECURSIVE Reassembled(_, _)
Reassembled(chunks, i) ==
    IF i > Len(chunks) THEN <<>>
    ELSE StripLabel(chunks[i].content) \o Reassembled(chunks, i + 1)

\* C18 (as claimed): for a message whose content is longer than
\* maxTokens * 4 characters, chunkMessage returns at least 2 sub-messages
\* whose contents, labels removed and concatenated in order, are the content
\* of the message.
C18_ChunksReassemble ==
    ( /\ budget.phase = "chunked"
      /\ Len(budget.message.content) > budget.maxTokens * 4 )
        => /\ Len(budget.chunks) >= 2
           /\ Reassembled(budget.chunks, 1) = budget.message.content

\* C19 (as claimed): of five messages estimated at 7,500 tokens each, the
\* budgeter sends the three newest ones, as they are, after the system
\* prompt: a history of 22,500 tokens.
C19_EvictsTwoOfFive ==
    (budget.phase = "sent" /\ budget.messages = FiveMessages)
        => /\ budget.out.filteredMessages = SubSeq(FiveMessages, 3, 5)
           /\ estimateTokens(budget.out.filteredMessages) = 22500

----------------------------------------------------------------------------
(* Properties of the token bucket.                                         *)

\* C20: whatever takes and refills have happened, the available amount is
\* at least 0 and at most the capacity.
C20_AvailableWithinCapacity ==
    /\ 0 <= bucket.available
    /\ bucket.available <= bucket.capacity

\* C20 witness: tokens have been granted, a later refill was cut at the
\* capacity, and the bucket has been emptied again.
C20_Witness ==
    /\ bucket.capped
    /\ bucket.granted > bucket.capacity
    /\ bucket.available = 0

\* C21: a take of an amount that the bucket holds once it has refilled
\* returns 0 and leaves what the bucket held less the amount.
C21_GrantDeducts ==
    (bucket.asked > 0 /\ bucket.before >= bucket.asked)
        => /\ bucket.lastWait = 0
           /\ bucket.available = bucket.before - bucket.asked

\* C21 witness: the bucket was full, a take of the whole capacity was
\* granted and nothing is left.
C21_Witness ==
    /\ bucket.asked = bucket.capacity
    /\ bucket.before = bucket.capacity
    /\ bucket.lastWait = 0
    /\ bucket.available = 0
    /\ bucket.granted >= bucket.capacity

\* C22: a take of more than the bucket holds once it has refilled returns
\* the least number of milliseconds after which the refill makes up the
\* difference, which is more than 0, and leaves what the bucket held.
C22_RefusalReturnsWait ==
    (bucket.asked > 0 /\ bucket.before < bucket.asked)
        => /\ bucket.lastWait > 0
           /\ bucket.lastWait * bucket.rate >= bucket.asked - bucket.before
           /\ (bucket.lastWait - 1) * bucket.rate < bucket.asked - bucket.before
           /\ bucket.available = bucket.before

\* C22 witness: after a grant, a take of more than the bucket holds is told
\* to wait, and the bucket, which is not empty, keeps what it holds.
C22_Witness ==
    /\ bucket.granted > 0
    /\ bucket.asked > bucket.before
    /\ bucket.before > 0
    /\ bucket.lastWait > 0
    /\ bucket.available = bucket.before

----------------------------------------------------------------------------
(* Properties of the loop around take.                                     *)

\* the amounts granted to the callers of S, summed
RECURSIVE GrantedTo(_)
GrantedTo(S) ==
    IF S = {} THEN 0
    ELSE LET c == CHOOSE d \in S : TRUE
         IN  admission.loop[c].debits * admission.loop[c].estimatedTokens * 1000
                + GrantedTo(S \ {c})

\* C23: whatever the interleaving of the instances' takes, what has been
\* granted to them is what the bucket has deducted, it is never more than
\* what the bucket held at first plus what the refills added, and the
\* available amount is never negative.
C23_NoOverGrant ==
    /\ bucket.available >= 0
    /\ GrantedTo(Callers) = bucket.granted
    /\ bucket.granted <= bucket.initial + bucket.refilled
    /\ bucket.granted + bucket.available = bucket.initial + bucket.refilled

\* C23 witness: two instances asked for more than the bucket held together,
\* one was granted at once, the other after the bucket had refilled.
C23_Witness ==
    /\ admission.loop["first"].at = "invoke"
    /\ admission.loop["second"].at = "invoke"
    /\ admission.loop["first"].estimatedTokens
            + admission.loop["second"].estimatedTokens > BucketCapacity
    /\ bucket.refilled > 0
    /\ bucket.initial < bucket.granted

\* C24 (as claimed): a take that returned a wait is always slept on before
\* the next take, no instance is granted more than once, and an instance
\* that goes on to its model call has been debited exactly once.
C24_TakeProtocol ==
    \A c \in Callers :
        /\ admission.loop[c].unslept = 0
        /\ admission.loop[c].debits <= 1
        /\ admission.loop[c].at = "invoke" => admission.loop[c].debits = 1

----------------------------------------------------------------------------
(* Properties of the graph run's state.                                    *)

\* C25: an agent step adds exactly 1 to iterations, however many model calls
\* it made; a tools step and a format_response step leave iterations as it
\* is; iterations never decreases, counts the agent steps and stays within
\* 0..maxIterations.
C25_IterationsCountAgentSteps ==
    /\ [](/\ 0 <= state.iterations
          /\ state.iterations <= state.maxIterations
          /\ state.iterations = agentSteps)
    /\ [][ /\ pc = "agent" => state'.iterations = state.iterations + 1
           /\ pc \in {"tools", "format_response", "END"} =>
                    state'.iterations = state.iterations
           /\ state'.iterations >= state.iterations ]_vars

\* C25 witness: the second agent step called the model three times, and
\* iterations is 2.
C25_Witness ==
    /\ agentSteps = 2
    /\ modelCalls = 3
    /\ toolExecs >= 1
    /\ state.iterations = 2

\* the number of messages a step of the node at pc produces
Produced ==
    CASE pc = "agent"           -> 1
      [] pc = "tools"           -> Invoked(agent, state)
      [] pc = "format_response" -> 1

\* C26 (as claimed): for the team manager, the code writer and the code
\* reviewer, the messages after a step of the agent, tools or
\* format_response node are the messages before it followed by the messages
\* the step produced, and by nothing else.
C26_MessagesAppendOnly ==
    [][ (agent \in DevAgents /\ pc \in {"agent", "tools", "format_response"})
            => /\ IsPrefix(state.messages, state'.messages)
               /\ Len(state'.messages) = Len(state.messages) + Produced ]_vars

\* C27: with iterations < maxIterations, a latest response that carries a
\* tool call leads to the tools node whatever its content; the team
\* manager, the code writer and the code reviewer go to format_response
\* exactly when the response carries no tool call and its content holds a
\* "{" or a fenced code block; the Voyager never does.
C27_ToolsBeforeFormat ==
    (pc = "evaluated" /\ state.iterations < state.maxIterations)
        => /\ Len(lastResponse.tool_calls) > 0
                => ConditionalEdge(agent, lastRoute) = "tools"
           /\ ConditionalEdge(agent, lastRoute) = "format_response"
                <=> /\ agent \in DevAgents
                    /\ Len(lastResponse.tool_calls) = 0
                    /\ HasMarker(lastResponse.content)

\* C27 witness: a response of the code writer with a tool call and a "{" in
\* its content, within the budget, evaluated to the tools node.
C27_Witness ==
    /\ pc = "evaluated"
    /\ agent = "writer"
    /\ state.iterations < state.maxIterations
    /\ Len(lastResponse.tool_calls) > 0
    /\ Includes(lastResponse.content, <<"{">>)
    /\ lastRoute = "continue"

----------------------------------------------------------------------------
(* Properties of the loop around modelInstance.invoke.                     *)

\* the first answer of the script with a content, the third if there is none
FirstNonEmpty(script) ==
    IF \E k \in 1..MAX_ATTEMPTS : script[k].content # <<>>
    THEN script[CHOOSE k \in 1..MAX_ATTEMPTS :
                    /\ script[k].content # <<>>
                    /\ \A j \in 1..(k - 1) : script[j].content = <<>>]
    ELSE script[MAX_ATTEMPTS]

\* C28: an agent step calls the model at least once and at most 3 times;
\* every call after the first follows a response with an empty content; the
\* response kept is the first one with a content, or the third one; it is
\* what the step appends to the conversation (the Voyager: what it takes
\* its tool calls from).
C28_RetryOnEmptyOnly ==
    LET n == Len(retry.received)
    IN  retry.phase # "idle" =>
            /\ n <= 3
            /\ \A k \in 1..n : retry.received[k] = retry.script[k]
            /\ \A k \in 2..n : retry.received[k - 1].content = <<>>
            /\ retry.phase \in {"accepted", "returned"} =>
                    /\ n >= 1
                    /\ retry.response = FirstNonEmpty(retry.script)
            /\ retry.phase = "returned" =>
                    /\ modelCalls = n
                    /\ state.iterations = 1
                    /\ IF agent = "voyager"
                       THEN state.toolCalls = FirstNonEmpty(retry.script).tool_calls
                       ELSE state.messages[Len(state.messages)] =
                                AIMessage(FirstNonEmpty(retry.script).content,
                                          FirstNonEmpty(retry.script).tool_calls)

\* C28 witness: the code writer's model answered twice with tool calls and
\* no content, then with a content, and the third response was appended.
C28_Witness ==
    /\ retry.phase = "returned"
    /\ agent = "writer"
    /\ Len(retry.received) = 3
    /\ Len(retry.received[1].tool_calls) > 0
    /\ retry.received[3].content # <<>>
    /\ state.messages[Len(state.messages)].content = retry.received[3].content

----------------------------------------------------------------------------
(* Properties of the structured-output call.                               *)

\* C29 (as claimed): when the structured-output call returned no parsed
\* value and a raw text that is JSON conforming to the agent's schema,
\* format_response stores the result and appends the validated response,
\* not the corrective message.
C29_RawFallback ==
    ( /\ coercion.phase = "done"
      /\ coercion.out.parsed = Null
      /\ coercion.out.raw.json
      /\ Conforms(agent, coercion.out.raw.value) )
        => /\ stored
           /\ state.messages[Len(state.messages)] = AIMessage(ValidatedContent, <<>>)

----------------------------------------------------------------------------
(* Properties of the eviction loop.                                        *)

\* C30: what the budgeter sends is the system prompt followed by the last
\* messages of the chunked history, as many of them as fit: the messages
\* kept are within CHUNK_SIZE together with the system prompt, and with the
\* message before them they would not be.
C30_LongestSuffixKept ==
    budget.phase = "sent" =>
        LET systemMessage == SystemPrompt(agent)
            chunked == budget.out.processedMessages
            kept    == budget.out.filteredMessages
            n       == Len(chunked)
            k       == Len(kept)
        IN  /\ budget.out.allMessages = <<systemMessage>> \o kept
            /\ k <= n
            /\ kept = SubSeq(chunked, n - k + 1, n)
            /\ k > 0 => estimateTokens(<<systemMessage>> \o kept) <= CHUNK_SIZE
            /\ k < n => estimateTokens(<<systemMessage>>
                                        \o SubSeq(chunked, n - k, n)) > CHUNK_SIZE

\* C30 witness: the code reviewer's budgeter dropped the oldest message of
\* the chunked history of two messages and sent the three after it.
C30_Witness ==
    /\ budget.phase = "sent"
    /\ agent = "reviewer"
    /\ Len(budget.messages) = 2
    /\ Len(budget.out.filteredMessages) = 3
    /\ Len(budget.out.filteredMessages) < Len(budget.out.processedMessages)

----------------------------------------------------------------------------
(* Properties of the system-message fallback.                              *)

----------------------------------------------------------------------------
(* Properties of the loops of the budgeter.                                *)

\* the characters chunkMessage breaks at
Boundaries == {"\n", ".", " "}

\* where the chunk that starts at startIndex is to end: just after the
\* latest boundary in the second half of the maxChars characters from
\* startIndex on, or after maxChars characters when there is none
SplitPoint(content, maxChars, startIndex) ==
    LET found == { p \in (startIndex + maxChars \div 2)..(startIndex + maxChars - 1) :
                     p < Len(content) /\ content[p + 1] \in Boundaries }
    IN  IF found = {} THEN startIndex + maxChars
        ELSE (CHOOSE p \in found : \A q \in found : q <= p) + 1

\* C32 (as claimed): an iteration of the while loop of chunkMessage whose
\* chunk ends before the end of the content ends it just after the latest
\* newline, period or space at or after half of maxChars and within
\* maxChars from the chunk's start, and at startIndex + maxChars when
\* there is no such character.
C32_SplitsAtLatestBoundary ==
    [][ ( /\ budget.phase = "while"
          /\ budget'.phase = "while"
          /\ budget'.iterations = budget.iterations + 1
          /\ budget'.startIndex < Len(budget.message.content) )
            => budget'.startIndex = SplitPoint(budget.message.content,
                                               budget.maxChars,
                                               budget.startIndex) ]_vars

----------------------------------------------------------------------------
(* Properties of the chunks chunkMessage returns.                          *)

\* C33 (as claimed): of the n >= 2 chunks chunkMessage returns for a message
\* longer than maxChars, the k-th ends with the label ' [Chunk k]'; a message
\* within maxChars is returned alone and as it is.
C33_ChunksLabelledInOrder ==
    budget.phase = "chunked" =>
        /\ Len(budget.chunks) >= 2 =>
              \A k \in 1..Len(budget.chunks) :
                  EndsWith(budget.chunks[k].content, ChunkLabel(k))
        /\ Len(budget.message.content) <= budget.maxTokens * 4 =>
              budget.chunks = <<budget.message>>

\* C34 (as claimed): every message chunkMessage returns holds at most
\* maxChars characters of the original content (its label apart).
C34_ChunksWithinCap ==
    budget.phase = "chunked" =>
        \A k \in 1..Len(budget.chunks) :
            Len(StripLabel(budget.chunks[k].content)) <= budget.maxTokens * 4

----------------------------------------------------------------------------
(* Properties of the loops of the budgeter: termination and frame.         *)

\* C35: the loops of chunkMessage and of the budgeter are bounded. Every
\* iteration of the while loop of chunkMessage moves startIndex forward, so a content of
\* L characters takes at most L iterations; every iteration of the eviction
\* loop removes one message, so there are at most as many as there are
\* messages in the chunked history.
C35_LoopsTerminate ==
    /\ [](budget.iterations <= Len(budget.message.content))
    /\ [](budget.evictions <= Len(budget.processedMessages))
    /\ [][ budget'.iterations = budget.iterations + 1
             => /\ budget'.startIndex > budget.startIndex
                /\ budget'.startIndex <= Len(budget.message.content) ]_vars
    /\ [][ budget'.evictions = budget.evictions + 1
             => Len(budget'.filteredMessages) = Len(budget.filteredMessages) - 1 ]_vars

\* C35 witness: agentNode has returned after a call of chunkMessage that
\* took several iterations and an eviction loop that took some.
C35_Witness ==
    /\ budget.phase = "returned"
    /\ budget.iterations >= 2
    /\ budget.evictions >= 1
    /\ Len(budget.processedMessages) > Len(budget.messages)

\* C36: what agentNode returns, and the state after the step, begin with
\* every message the state held when the node was entered, as it was:
\* chunking and eviction have changed only the messages sent to the model.
C36_HistoryKept ==
    budget.phase = "returned" =>
        /\ IsPrefix(budget.messages, budget.returned)
        /\ IsPrefix(budget.messages, state.messages)
        /\ Len(budget.returned) = Len(budget.messages) + 1

\* C36 witness: the task message was evicted from the messages sent to the
\* model, nothing was chunked, and agentNode has returned with the task
\* message still first in the state.
C36_Witness ==
    /\ budget.phase = "returned"
    /\ budget.evictions >= 1
    /\ budget.processedMessages = budget.messages
    /\ budget.allMessages[2] # TaskMessage
    /\ state.messages[1] = TaskMessage

\* C37 (as claimed): in the messages sent to the model every tool message
\* answers a call of the assistant message before it, which is sent too,
\* and no two tool messages answer the same call.
C37_SentPaired ==
    budget.phase = "returned" =>
        LET sent == budget.allMessages
        IN  /\ Paired(sent, 1, {})
            /\ \A i, j \in 1..Len(sent) :
                  ( /\ sent[i].role = "tool"
                    /\ sent[j].role = "tool"
                    /\ sent[i].tool_call_id = sent[j].tool_call_id ) => i = j

----------------------------------------------------------------------------
(* Properties of the admission loop run by one instance.                   *)

\* C38: an agent instance alone on the bucket never asks take for more than
\* 100,000 tokens, and when what it asks for is within the capacity of the
\* bucket its loop ends: it reaches the model call, and the last take
\* returned 0.
C38_EventuallyAdmitted ==
    /\ [](admission.loop[Solo].estimatedTokens <= MAX_ESTIMATED_TOKENS)
    /\ [](admission.loop[Solo].at = "invoke" => bucket.lastWait = 0)
    /\ (admission.loop[Solo].estimatedTokens * 1000 <= bucket.capacity)
          ~> (admission.loop[Solo].at = "invoke")

\* C38 witness: the instance was sent to sleep, its timer came due and the
\* take after it admitted the model call.
C38_Witness ==
    /\ admission.phase = "run"
    /\ admission.loop[Solo].at = "invoke"
    /\ admission.loop[Solo].timeoutTime > 0
    /\ bucket.now >= admission.loop[Solo].wakeAt
    /\ bucket.lastWait = 0

----------------------------------------------------------------------------
(* Properties of the Voyager's answer.                                     *)

\* C39 (as claimed): the answer a Voyager invocation returns before its
\* iterations are used up is the text after 'ANSWER;' in the last response
\* of the model.
C39_AnswerOfLastResponse ==
    ( /\ agent = "voyager"
      /\ pc = "returned"
      /\ state.iterations < state.maxIterations )
        => /\ Includes(lastResponse.content, <<"ANSWER;">>)
           /\ retval = Some(Trim(SplitSecond(lastResponse.content, "ANSWER;")))

====
